---- MODULE Spec2Model ----
(***************************************************************************)
(* Change-tracking units of work of fastapi-mongo-admin:                   *)
(*   - MongoSession (app/infrastructure/trackers/mongo_session.py): keeps  *)
(*     a dump of every tracked entity as baseline and, on flush, writes    *)
(*     the top-level keys whose dump differs from the baseline;            *)
(*   - Session (app/example.py): records changed fields through an         *)
(*     instrumented __setattr__ and list/record proxies.                   *)
(*   - instrument_class (app/example.py): installs that __setattr__ on a   *)
(*     dataclass, once.                                                    *)
(*   - MongoChangeTracker (app/infrastructure/db/change_tracker.py):       *)
(*     tracks entities by _id and, on save, replaces their documents with  *)
(*     one bulk_write.                                                     *)
(* Mutable Python objects that can be shared (lists, dicts) live in heaps  *)
(* indexed by cells; a value that merely refers to such an object is a     *)
(* reference to its cell, a copy is the content itself.                    *)
(***************************************************************************)
EXTENDS Integers, Sequences, FiniteSets, TLC

\* ---------------------------------------------------------------- bounds
\* Lists hold at most MaxLen elements.
MaxLen == 1
\* Runs of at most MaxOps operations (session calls and mutations) are explored.
MaxOps == 5

\* Scalar field values.
Vals == {0, 1}
None == "None"
\* the _id of an entity whose class declares no _id field
Absent == "absent"

\* ------------------------------------------------------- MongoSession side
\* The entity objects the application holds (distinct Python objects).
Entities == {"e1", "e2"}
\* Identifiers the application uses; "bad" is no valid ObjectId string.
UserIds == {"a", "b", "bad"}
\* Identifiers the application assigns to an existing entity object.
AssignedIds == {"a", "bad"}
\* Identifiers the store generates on insert.
StoreIds == {"s1", "s2"}
Fields == {"name", "tags", "metadata"}

VARIABLES
    ent,                \* entity object -> [id, name, tags, metadata]; tags and
                        \* metadata refer to a list cell and a dict cell
    lists,              \* list cell -> the list's elements
    inner,              \* dict cell c: the metadata dict {"profile": {"avatar": inner[c]}}
    tracked_entities,   \* MongoSession._tracked_entities[User] (and
                        \* MongoChangeTracker's), in insertion order:
                        \* sequence of [key, ent]
    original_snapshots, \* MongoSession._original_snapshots[User]: key -> dump
    pending_inserts,    \* MongoSession._pending_inserts[User]: sequence of entities
    in_transaction,     \* session.in_transaction of the driver session
    calls,              \* store and transaction calls made by the last operation
    op,                 \* the last operation, its argument and how it ended
    steps,              \* operations performed so far
    base,               \* history: key -> the entity its baseline was captured
                        \* from and the value that entity had at that moment
    dirty,              \* history: entities mutated since the session adopted
                        \* them (queued them or captured a baseline from them,
                        \* holding them not yet) or since its last successful
                        \* flush
    flushed,            \* history: keys whose baseline a successful flush refreshed
    rolled_back,        \* history: MongoSession.rollback has run
    pre,                \* history: the session as the last flush found it
    unit,               \* which unit of work the run exercises
    sinst,              \* Session side: instance -> [id, username, tags, wrapped]
    dcell,              \* dict cell c: the dict {"k": dcell[c]}
    instance_states,    \* Session._instance_states: instance -> InstanceState
    tracked_instances,  \* Session._tracked_instances
    captured,           \* history: instance -> field -> the value an entry of
                        \* original_values had when it was stored
    win,                \* history: instance -> field -> the field's value when
                        \* its current window began, the assignments made to
                        \* it since and whether it was only assigned
    klass,              \* class -> the attributes instrument_class set on the
                        \* class itself: the marker and how often __setattr__
                        \* was replaced
    called,             \* history: classes instrument_class was called for
    pdoc,               \* proxies: field -> the value the instance holds, as a
                        \* tree of scalars, lists, dicts, records and the
                        \* TrackedList and TrackedObject proxies around them
    pstate              \* proxies: ref, the Session the instance's _session_ref
                        \* points at, and states, each Session's
                        \* _instance_states: instance -> changed_fields and
                        \* original_values

\* what both units of work share
shared == <<in_transaction, calls, op, steps, dirty, pre, unit>>

mvars == <<ent, lists, inner, tracked_entities, original_snapshots,
           pending_inserts, base, flushed, rolled_back>>

svars == <<sinst, dcell, instance_states, tracked_instances, captured, win>>

ivars == <<klass, called>>

pvars == <<pdoc, pstate>>

vars == <<shared, mvars, svars, ivars, pvars>>

NoSnap == [none |-> TRUE]

\* ---- values and dumps
DumpKeys == Fields \cup {"_id"}

\* retort.dump of a User: _id and name as they are, tags: list[str] as a new
\* list, metadata: dict[str, Any] as a new dict whose values (typed Any) are
\* passed as they are, so the nested dict under "profile" is the same object.
Dump(e) ==
    [k \in DumpKeys |->
        CASE k = "_id" -> ent[e].id
          [] k = "name" -> ent[e].name
          [] k = "tags" -> lists[ent[e].tags]
          [] k = "metadata" -> [profile |-> [ref |-> ent[e].metadata]]]

\* a pop that removes nothing
Pop_nothing(d, key) == d

\* dict.pop(key, None) on a fresh dump
Pop(d, key) == [k \in DOMAIN d \ {key} |-> d[k]]

\* What a referenced or copied nested dict holds now.
Resolve(v) == IF "ref" \in DOMAIN v THEN [avatar |-> inner[v.ref]] ELSE v

\* The plain value Python's == compares and the driver encodes.
Plain(field, v) ==
    IF field = "metadata"
    THEN [profile |-> Resolve(v.profile)]
    ELSE v

PlainDump(d) == [f \in DOMAIN d |-> Plain(f, d[f])]

\* a comparison that finds every key different
GetDiffers_always(original, current, key) == TRUE

\* original.get(key) != current.get(key): a missing key reads as None, which
\* no field value of the model equals.
GetDiffers(original, current, key) ==
    IF key \in DOMAIN original /\ key \in DOMAIN current
    THEN Plain(key, original[key]) # Plain(key, current[key])
    ELSE (key \in DOMAIN original) # (key \in DOMAIN current)

\* a diff that reports the whole current dump
GetChangedFields_whole(original, current) == current

\* MongoSession._get_changed_fields
GetChangedFields(original, current) ==
    LET all_keys == DOMAIN original \cup DOMAIN current
        changed == {key \in all_keys : GetDiffers(original, current, key)}
    IN [key \in changed |->
            IF key \in DOMAIN current THEN current[key] ELSE NoSnap]

\* dataclass __eq__ (used by "entity not in list"): all fields, _id included
EntityValue(e) == PlainDump(Dump(e))

InList(e, es) ==
    \E i \in 1..Len(es) : es[i] = e \/ EntityValue(es[i]) = EntityValue(e)

TrackedKeys == {tracked_entities[i].key : i \in 1..Len(tracked_entities)}

KeyIndex(key) == CHOOSE i \in 1..Len(tracked_entities) : tracked_entities[i].key = key

TrackedAt(key) == tracked_entities[KeyIndex(key)].ent

\* the value of an entity without its identifier
CurrentValue(e) == PlainDump(Pop(Dump(e), "_id"))

\* one store or transaction call, as the operations record it: key is the
\* identifier of an update's filter or the identifier an insert returned,
\* modified the modified_count an update reported
Call(kind, key, e, doc, ok, modified) ==
    [kind |-> kind, key |-> key, ent |-> e, doc |-> doc, ok |-> ok,
     modified |-> modified]

Result(name, arg, result) == [name |-> name, arg |-> arg, result |-> result]

NoKeys == [k \in {} |-> NoSnap]

NoPre == [snapshots |-> NoKeys, base |-> NoKeys, pending |-> <<>>,
          dirty |-> {}, flushed |-> {}, states |-> NoKeys, ids |-> NoKeys]

PreState ==
    [snapshots |-> [k \in DOMAIN original_snapshots |->
                        PlainDump(original_snapshots[k])],
     base |-> base, pending |-> pending_inserts,
     dirty |-> dirty, flushed |-> flushed, states |-> NoKeys,
     ids |-> [e \in Entities |-> ent[e].id]]

\* every operation counts towards the explored run length
Tick == steps < MaxOps /\ steps' = steps + 1

\* a step of a run that exercises MongoSession
MongoStep == unit = "MongoSession" /\ Tick /\ UNCHANGED <<unit, svars, ivars, pvars>>

Extend(f, k, v) == [x \in DOMAIN f \cup {k} |-> IF x = k THEN v ELSE f[x]]

\* a test that finds no snapshot under any identifier
HasSnapshot_never(entity_id) == FALSE

\* entity_id in self._original_snapshots[entity_type]
HasSnapshot(entity_id) == entity_id \in DOMAIN original_snapshots

\* history: the session holds the entity object already
Known(e) ==
    \/ \E i \in 1..Len(pending_inserts) : pending_inserts[i] = e
    \/ \E i \in 1..Len(tracked_entities) : tracked_entities[i].ent = e

\* not hasattr(entity, "_id") or entity._id is None
NoIdentifier(e) == ent[e].id \in {None, Absent}

\* history: add queues the entity or captures a baseline from it
Adopts(e) ==
    IF NoIdentifier(e) THEN ~InList(e, pending_inserts)
    ELSE ~HasSnapshot(ent[e].id)

\* Objects that are no entities of a mapped dataclass: an instance of a
\* class that is no dataclass, and one of a dataclass that
\* collection_mapping does not hold.
OtherObjects == {"plain", "unmapped"}

\* a check that takes every object that is no entity for a wrong value
AddError_value(o) == IF o \in OtherObjects THEN "ValueError" ELSE "ok"

\* the checks at the head of MongoSession.add: the exception raised, "ok" if
\* none
AddError(o) ==
    IF o = "plain" THEN "EntityNotDataclassError"
    ELSE IF o = "unmapped" THEN "CollectionMappingNotFoundError"
    ELSE "ok"

\* MongoSession.add: an object the checks reject leaves the session as it
\* is; an entity without identifier is queued in _pending_inserts unless the
\* list holds it (or an equal entity), one with an identifier is tracked
\* under it and, if the identifier has no snapshot, a snapshot is taken
MongoSession_add(o) ==
    /\ MongoStep
    /\ calls' = <<>>
    /\ op' = Result("add", o, AddError(o))
    /\ pre' = NoPre
    /\ UNCHANGED <<ent, lists, inner, in_transaction, rolled_back>>
    /\ IF AddError(o) # "ok"
       THEN UNCHANGED <<dirty, tracked_entities, original_snapshots,
                        pending_inserts, base, flushed>>
       ELSE /\ dirty' = IF Known(o) \/ ~Adopts(o) THEN dirty ELSE dirty \ {o}
            /\ IF NoIdentifier(o)
               THEN /\ pending_inserts' = IF InList(o, pending_inserts)
                                           THEN pending_inserts
                                           ELSE Append(pending_inserts, o)
                    /\ UNCHANGED <<tracked_entities, original_snapshots, base, flushed>>
               ELSE LET entity_id == ent[o].id IN
                    /\ tracked_entities' =
                            IF entity_id \in TrackedKeys
                            THEN [tracked_entities EXCEPT ![KeyIndex(entity_id)].ent = o]
                            ELSE Append(tracked_entities, [key |-> entity_id, ent |-> o])
                    /\ IF HasSnapshot(entity_id)
                       THEN UNCHANGED <<original_snapshots, base, flushed>>
                       ELSE /\ original_snapshots' =
                                    Extend(original_snapshots, entity_id,
                                           Pop(Dump(o), "_id"))
                            /\ base' = Extend(base, entity_id,
                                              [from |-> o, value |-> CurrentValue(o)])
                            /\ flushed' = flushed \ {entity_id}
                    /\ UNCHANGED pending_inserts

\* ObjectId(entity_id) accepts the string
ValidObjectId(key) == key # "bad"

\* the identifier insert_one returns: one the store has not handed out and
\* nothing in the session uses
FreshIds(E) == StoreIds \ ({E[x].id : x \in Entities} \cup TrackedKeys)

MinId(S) == IF "s1" \in S THEN "s1" ELSE "s2"

\* MongoSession._process_inserts, the loop over the pending entities. failAt
\* is the number of the store call that raises (0: none). Returns the entity
\* objects (their _id written), the calls made and the error raised.
RECURSIVE InsertLoop(_, _, _, _)
InsertLoop(es, E, cs, failAt) ==
    IF es = <<>> THEN [ent |-> E, calls |-> cs, error |-> "ok"]
    ELSE LET entity == Head(es)
             entity_dict == PlainDump(Pop(Dump(entity), "_id"))
         IN IF Len(cs) + 1 = failAt \/ FreshIds(E) = {}
            THEN [ent |-> E,
                  calls |-> Append(cs, Call("insert_one", None, entity,
                                            entity_dict, FALSE, 0)),
                  error |-> "StoreError"]
            ELSE LET inserted_id == MinId(FreshIds(E)) IN
                 InsertLoop(Tail(es),
                            [E EXCEPT ![entity].id = inserted_id],
                            Append(cs, Call("insert_one", inserted_id, entity,
                                            entity_dict, TRUE, 0)),
                            failAt)

\* MongoSession._update_entity_type, the loop over the tracked entities; mc
\* is the modified_count the store reports for the updates
RECURSIVE UpdateLoop(_, _, _, _)
UpdateLoop(ts, cs, failAt, mc) ==
    IF ts = <<>> THEN [calls |-> cs, error |-> "ok"]
    ELSE LET entity_id == Head(ts).key
             entity == Head(ts).ent
         IN IF ~ValidObjectId(entity_id)
            THEN [calls |-> cs, error |-> "InvalidEntityIdError"]
            ELSE IF entity_id \notin DOMAIN original_snapshots
            THEN UpdateLoop(Tail(ts), cs, failAt, mc)
            ELSE LET current_dump == Pop(Dump(entity), "_id")
                     original_dump == original_snapshots[entity_id]
                     update_fields == GetChangedFields(original_dump, current_dump)
                 IN IF DOMAIN update_fields = {}
                    THEN UpdateLoop(Tail(ts), cs, failAt, mc)
                    ELSE IF Len(cs) + 1 = failAt
                    THEN [calls |-> Append(cs, Call("update_one", entity_id, entity,
                                                     PlainDump(update_fields), FALSE, 0)),
                          error |-> "StoreError"]
                    ELSE UpdateLoop(Tail(ts),
                                    Append(cs, Call("update_one", entity_id, entity,
                                                    PlainDump(update_fields), TRUE, mc)),
                                    failAt, mc)

\* snapshots that a flush leaves as they were
UpdateSnapshots_kept == original_snapshots

\* MongoSession._update_snapshots
UpdateSnapshots ==
    [k \in DOMAIN original_snapshots \cup TrackedKeys |->
        IF k \in TrackedKeys THEN Pop(Dump(TrackedAt(k)), "_id")
        ELSE original_snapshots[k]]

\* history kept along with _update_snapshots
UpdateBase ==
    [k \in DOMAIN original_snapshots \cup TrackedKeys |->
        IF k \in TrackedKeys
        THEN [from |-> TrackedAt(k), value |-> CurrentValue(TrackedAt(k))]
        ELSE base[k]]

\* a flush that advances the snapshots even when an update raised
FlushBody_advancing(failAt, mc) ==
    LET ins == InsertLoop(pending_inserts, ent, <<>>, failAt)
        upd == UpdateLoop(tracked_entities, ins.calls, failAt, mc)
    IN IF ins.error # "ok"
       THEN [ent |-> ins.ent, pending |-> pending_inserts,
             snapshots |-> original_snapshots,
             calls |-> ins.calls, error |-> ins.error,
             base |-> base, dirty |-> dirty, flushed |-> flushed]
       ELSE [ent |-> ins.ent, pending |-> <<>>,
             snapshots |-> UpdateSnapshots,
             calls |-> upd.calls, error |-> upd.error,
             base |-> UpdateBase,
             dirty |-> IF upd.calls = <<>> THEN dirty ELSE {},
             flushed |-> flushed \cup TrackedKeys]

\* MongoSession.flush as a function of the state: what it leaves behind
FlushBody(failAt, mc) ==
    IF tracked_entities = <<>> /\ pending_inserts = <<>>
    THEN [ent |-> ent, pending |-> pending_inserts, snapshots |-> original_snapshots,
          calls |-> <<>>, error |-> "ok",
          base |-> base, dirty |-> dirty, flushed |-> flushed]
    ELSE LET ins == InsertLoop(pending_inserts, ent, <<>>, failAt) IN
         IF ins.error # "ok"
         THEN [ent |-> ins.ent, pending |-> pending_inserts,
               snapshots |-> original_snapshots,
               calls |-> ins.calls, error |-> ins.error,
               base |-> base, dirty |-> dirty, flushed |-> flushed]
         ELSE LET upd == UpdateLoop(tracked_entities, ins.calls, failAt, mc) IN
              IF upd.error # "ok"
              THEN [ent |-> ins.ent, pending |-> <<>>,
                    snapshots |-> original_snapshots,
                    calls |-> upd.calls, error |-> upd.error,
                    base |-> base, dirty |-> dirty, flushed |-> flushed]
              ELSE [ent |-> ins.ent, pending |-> <<>>,
                    snapshots |-> UpdateSnapshots,
                    calls |-> upd.calls, error |-> "ok",
                    base |-> UpdateBase, dirty |-> {},
                    flushed |-> flushed \cup TrackedKeys]

MaxCalls == Len(pending_inserts) + Len(tracked_entities)

\* MongoSession.flush
MongoSession_flush ==
    \E failAt \in 0..MaxCalls, mc \in {0, 1} :
        LET r == FlushBody(failAt, mc) IN
        /\ MongoStep
        /\ failAt = 0 \/ r.error = "StoreError"
        /\ ent' = r.ent
        /\ pending_inserts' = r.pending
        /\ original_snapshots' = r.snapshots
        /\ base' = r.base
        /\ dirty' = r.dirty
        /\ flushed' = r.flushed
        /\ calls' = r.calls
        /\ op' = Result("flush", None, r.error)
        /\ pre' = PreState
        /\ UNCHANGED <<lists, inner, tracked_entities, in_transaction, rolled_back>>

\* MongoSession.flush, suspended at an await: flush awaits every store call,
\* and while it waits on the update it issued for the entity, or on a later
\* one, another task assigns entity.name = v. The flush then completes (every
\* update reporting one modified document): _update_snapshots dumps the
\* entities as they are by then.
MongoSession_flush_suspended(e, v) ==
    LET r == FlushBody(0, 1) IN
    /\ MongoStep
    /\ ent[e].name # v
    /\ \E i \in 1..Len(tracked_entities) : tracked_entities[i].ent = e
    /\ r.error = "ok"
    /\ \E i \in 1..Len(r.calls) :
            r.calls[i].kind = "update_one" /\ r.calls[i].ent = e
    /\ ent' = [r.ent EXCEPT ![e].name = v]
    /\ UNCHANGED <<lists, inner, tracked_entities, in_transaction, rolled_back>>
    /\ pending_inserts' = r.pending
    /\ original_snapshots' =
            [k \in DOMAIN r.snapshots |->
                IF k \in TrackedKeys THEN Pop(Dump(TrackedAt(k)), "_id")'
                ELSE r.snapshots[k]]
    /\ base' = [k \in DOMAIN r.base |->
                    IF k \in TrackedKeys
                    THEN [from |-> TrackedAt(k),
                          value |-> CurrentValue(TrackedAt(k))']
                    ELSE r.base[k]]
    /\ dirty' = {e}
    /\ flushed' = r.flushed
    /\ calls' = r.calls
    /\ op' = Result("flush_suspended", e, "ok")
    /\ pre' = PreState

\* a commit that calls commit_transaction whatever the session reports
CommitIfActive_always(active) ==
    <<Call("commit_transaction", None, None, NoSnap, TRUE, 0)>>

\* if self.session.in_transaction: await self.session.commit_transaction()
CommitIfActive(active) ==
    IF active THEN <<Call("commit_transaction", None, None, NoSnap, TRUE, 0)>>
    ELSE <<>>

\* MongoSession.commit
MongoSession_commit ==
    \E failAt \in 0..MaxCalls, mc \in {0, 1} :
        LET r == FlushBody(failAt, mc) IN
        /\ MongoStep
        /\ failAt = 0 \/ r.error = "StoreError"
        /\ ent' = r.ent
        /\ pending_inserts' = r.pending
        /\ op' = Result("commit", None, r.error)
        /\ pre' = PreState
        /\ IF r.error # "ok"
           THEN /\ original_snapshots' = r.snapshots
                /\ base' = r.base
                /\ dirty' = r.dirty
                /\ flushed' = r.flushed
                /\ calls' = r.calls
                /\ UNCHANGED <<tracked_entities, in_transaction>>
           ELSE /\ calls' = r.calls \o CommitIfActive(in_transaction)
                /\ in_transaction' = FALSE
                /\ tracked_entities' = <<>>
                /\ original_snapshots' = NoKeys
                /\ base' = NoKeys
                /\ dirty' = r.dirty
                /\ flushed' = {}
        /\ UNCHANGED <<lists, inner, rolled_back>>

\* MongoSession.rollback
MongoSession_rollback ==
    /\ MongoStep
    /\ calls' = IF in_transaction
                THEN <<Call("abort_transaction", None, None, NoSnap, TRUE, 0)>>
                ELSE <<>>
    /\ in_transaction' = FALSE
    /\ tracked_entities' = <<>>
    /\ original_snapshots' = NoKeys
    /\ pending_inserts' = <<>>
    /\ base' = NoKeys
    /\ flushed' = {}
    /\ rolled_back' = TRUE
    /\ op' = Result("rollback", None, "ok")
    /\ pre' = NoPre
    /\ UNCHANGED <<ent, lists, inner, dirty>>

\* ---- the application mutates entity objects. A mutation that no call on
\* the session follows is seen by none: the last operation of a run is a
\* call on the session.
Mutated(who) ==
    /\ MongoStep
    /\ steps < MaxOps - 1
    /\ calls' = <<>>
    /\ op' = Result("none", None, "ok")
    /\ pre' = NoPre
    /\ dirty' = dirty \cup who
    /\ UNCHANGED <<tracked_entities, original_snapshots, pending_inserts,
                   in_transaction, base, flushed, rolled_back>>

\* entity.name = v
SetName(e, v) ==
    /\ ent[e].name # v
    /\ ent' = [ent EXCEPT ![e].name = v]
    /\ Mutated({e})
    /\ UNCHANGED <<lists, inner>>

\* entity._id = i
SetId(e, i) ==
    /\ ent[e].id # i
    /\ ent' = [ent EXCEPT ![e].id = i]
    /\ Mutated({e})
    /\ UNCHANGED <<lists, inner>>

\* entity.tags.append(v)
TagsAppend(e, v) ==
    /\ Len(lists[ent[e].tags]) < MaxLen
    /\ lists' = [lists EXCEPT ![ent[e].tags] = Append(@, v)]
    /\ Mutated({x \in Entities : ent[x].tags = ent[e].tags})
    /\ UNCHANGED <<ent, inner>>

\* entity.tags.pop()
TagsPop(e) ==
    /\ lists[ent[e].tags] # <<>>
    /\ lists' = [lists EXCEPT ![ent[e].tags] = SubSeq(@, 1, Len(@) - 1)]
    /\ Mutated({x \in Entities : ent[x].tags = ent[e].tags})
    /\ UNCHANGED <<ent, inner>>

\* entity.metadata["profile"]["avatar"] = v
SetAvatar(e, v) ==
    /\ inner[ent[e].metadata] # v
    /\ inner' = [inner EXCEPT ![ent[e].metadata] = v]
    /\ Mutated({x \in Entities : ent[x].metadata = ent[e].metadata})
    /\ UNCHANGED <<ent, lists>>

\* ------------------------------------------------------ MongoChangeTracker
\* MongoChangeTracker keeps _tracked_entities[User] only (tracked_entities,
\* keyed by the entity's _id) and writes whole documents with bulk_write.
TrackerStep ==
    /\ unit = "MongoChangeTracker"
    /\ Tick
    /\ UNCHANGED <<unit, dirty, pre, original_snapshots, pending_inserts, base,
                   flushed, rolled_back, svars, ivars, pvars>>

\* checks that let an entity without identifier pass
TrackError_lenient(o, id) ==
    IF o = "plain" THEN "EntityNotDataclassError"
    ELSE IF o = "unmapped" THEN "CollectionMappingNotFoundError"
    ELSE "ok"

\* the checks at the head of MongoChangeTracker.track, in their order: the
\* exception raised for object o whose _id is id, "ok" if none
TrackError(o, id) ==
    IF o = "plain" THEN "EntityNotDataclassError"
    ELSE IF id \in {None, Absent} THEN "EntityMissingIdError"
    ELSE IF o = "unmapped" THEN "CollectionMappingNotFoundError"
    ELSE "ok"

\* MongoChangeTracker.track: an object that is no entity comes with or
\* without an identifier
MongoChangeTracker_track(o) ==
    \E id \in IF o \in Entities THEN {ent[o].id} ELSE {None, "a"} :
        /\ TrackerStep
        /\ calls' = <<>>
        /\ op' = Result("track", o, TrackError(o, id))
        /\ tracked_entities' =
                IF TrackError(o, id) # "ok" THEN tracked_entities
                ELSE IF id \in TrackedKeys
                THEN [tracked_entities EXCEPT ![KeyIndex(id)].ent = o]
                ELSE Append(tracked_entities, [key |-> id, ent |-> o])
        /\ UNCHANGED <<ent, lists, inner, in_transaction>>

\* MongoChangeTracker._build_operations, the loop over the tracked entities:
\* the ReplaceOne operations built and the error raised
RECURSIVE BuildOperations(_, _)
BuildOperations(ts, operations) ==
    IF ts = <<>> THEN [operations |-> operations, error |-> "ok"]
    ELSE LET entity_id == Head(ts).key
             entity_dict == PlainDump(Pop(Dump(Head(ts).ent), "_id"))
         IN IF ~ValidObjectId(entity_id)
            THEN [operations |-> operations, error |-> "InvalidEntityIdError"]
            ELSE BuildOperations(Tail(ts),
                    Append(operations, [filter |-> entity_id,
                                        replacement |-> entity_dict,
                                        upsert |-> FALSE]))

\* MongoChangeTracker.save with _save_all_entity_types and _save_entity_type:
\* raises says whether bulk_write raises, mc is the modified_count it
\* reports. An exception runs rollback and is raised again. op.arg holds the
\* value returned, written out.
MongoChangeTracker_save ==
    \E raises \in BOOLEAN, mc \in 0..Len(tracked_entities) :
        LET built == BuildOperations(tracked_entities, <<>>)
            bulk_write == Call("bulk_write", None, None,
                               [ordered |-> TRUE, operations |-> built.operations],
                               ~raises, IF raises THEN 0 ELSE mc)
            error == IF built.error # "ok" THEN built.error
                     ELSE IF raises THEN "StoreError" ELSE "ok"
            abort == IF in_transaction
                     THEN <<Call("abort_transaction", None, None, NoSnap, TRUE, 0)>>
                     ELSE <<>>
        IN /\ TrackerStep
           /\ UNCHANGED <<ent, lists, inner>>
           /\ IF tracked_entities = <<>>
              THEN /\ ~raises
                   /\ calls' = <<>>
                   /\ op' = Result("save", ToString(0), "ok")
                   /\ UNCHANGED <<tracked_entities, in_transaction>>
              ELSE /\ built.error = "ok" \/ (~raises /\ mc = 0)
                   /\ raises => mc = 0
                   /\ tracked_entities' = <<>>
                   /\ IF error = "ok"
                      THEN /\ calls' = <<bulk_write>>
                           /\ op' = Result("save", ToString(mc), "ok")
                           /\ UNCHANGED in_transaction
                      ELSE /\ calls' = (IF built.error # "ok" THEN <<>>
                                        ELSE <<bulk_write>>) \o abort
                           /\ op' = Result("save", None, error)
                           /\ in_transaction' = FALSE

\* MongoChangeTracker.commit
MongoChangeTracker_commit ==
    /\ TrackerStep
    /\ calls' = CommitIfActive(in_transaction)
    /\ in_transaction' = FALSE
    /\ op' = Result("commit", None, "ok")
    /\ UNCHANGED <<ent, lists, inner, tracked_entities>>

\* MongoChangeTracker.rollback
MongoChangeTracker_rollback ==
    /\ TrackerStep
    /\ calls' = IF in_transaction
                THEN <<Call("abort_transaction", None, None, NoSnap, TRUE, 0)>>
                ELSE <<>>
    /\ in_transaction' = FALSE
    /\ tracked_entities' = <<>>
    /\ op' = Result("rollback", None, "ok")
    /\ UNCHANGED <<ent, lists, inner>>

\* MongoChangeTracker.clear
MongoChangeTracker_clear ==
    /\ TrackerStep
    /\ calls' = <<>>
    /\ tracked_entities' = <<>>
    /\ op' = Result("clear", None, "ok")
    /\ UNCHANGED <<ent, lists, inner, in_transaction>>

\* the application assigns entity.name = v or entity._id = v
TrackerSetattr(e, name, v) ==
    /\ TrackerStep
    /\ ent' = IF name = "_id" THEN [ent EXCEPT ![e].id = v]
              ELSE [ent EXCEPT ![e].name = v]
    /\ ent' # ent
    /\ calls' = <<>>
    /\ op' = Result("none", None, "ok")
    /\ UNCHANGED <<lists, inner, tracked_entities, in_transaction>>

\* ------------------------------------------------------------ Session side
\* The instances of the instrumented dataclass the application holds.
SInstances == {"u1", "u2"}
\* Dict objects the application created and can reach.
DictCells == {"d1"}
\* The dataclass fields besides _id.
PublicFields == {"username", "tags"}
\* What the application puts into a tags list: a string, or a dict it holds.
Elems == {[val |-> 1], [ref |-> "d1"]}
ListVals == {<<[val |-> 1]>>}

\* name.startswith("_")
StartsWithUnderscore_never(name) == FALSE

StartsWithUnderscore(name) == name = "_id"

\* isinstance(value, list) for the value a field holds
IsListValue(name) == name = "tags"

\* getattr(instance, name)
GetAttr(I, u, name) ==
    CASE name = "_id" -> I[u].id
      [] name = "username" -> I[u].username
      [] name = "tags" -> I[u].tags

IsDictRef(x) == "ref" \in DOMAIN x

\* copy.deepcopy: a dict element becomes a new dict with the same content
DeepCopyElem(x) == IF IsDictRef(x) THEN [k |-> dcell[x.ref]] ELSE x

DeepCopy(name, v) ==
    IF IsListValue(name) THEN [i \in 1..Len(v) |-> DeepCopyElem(v[i])] ELSE v

\* TrackedList._unwrap_for_copy of a list of strings and dicts: a new list
\* whose elements are the items themselves (no item has a __dict__)
UnwrapForCopy(data) == [i \in 1..Len(data) |-> data[i]]

\* Session._serialize_value: lists and dicts are rebuilt, scalars returned
SerializeElem(x) == IF IsDictRef(x) THEN [k |-> dcell[x.ref]] ELSE x

SerializeValue(name, v) ==
    IF IsListValue(name) THEN [i \in 1..Len(v) |-> SerializeElem(v[i])] ELSE v

\* InstanceState.__init__
NewInstanceState == [changed_fields |-> {}, original_values |-> NoKeys]

\* a mark_changed that stores the original value on every call
MarkChanged_overwrite(state, field_name, original_value, is_tracked) ==
    [changed_fields |-> state.changed_fields \cup {field_name},
     original_values |->
         Extend(state.original_values, field_name,
                IF IsListValue(field_name) /\ is_tracked
                THEN UnwrapForCopy(original_value)
                ELSE DeepCopy(field_name, original_value))]

\* InstanceState.mark_changed; is_tracked tells whether a list value is a
\* TrackedList (has _unwrap_for_copy)
MarkChanged(state, field_name, original_value, is_tracked) ==
    IF field_name \notin state.changed_fields
    THEN [changed_fields |-> state.changed_fields \cup {field_name},
          original_values |->
              Extend(state.original_values, field_name,
                     IF IsListValue(field_name) /\ is_tracked
                     THEN UnwrapForCopy(original_value)
                     ELSE DeepCopy(field_name, original_value))]
    ELSE state

\* TrackedList._mark_initial_state
MarkInitialState(state, field_name, data) ==
    IF field_name \notin DOMAIN state.original_values
    THEN [state EXCEPT !.original_values = Extend(@, field_name, UnwrapForCopy(data))]
    ELSE state

\* TrackedList._mark_changed
ListMarkChanged(state, field_name) ==
    [state EXCEPT !.changed_fields = @ \cup {field_name}]

SetField(r, name, value) ==
    CASE name = "_id" -> [r EXCEPT !.id = value]
      [] name = "username" -> [r EXCEPT !.username = value]
      [] name = "tags" -> [r EXCEPT !.tags = value]

\* tracking_setattr installed by instrument_class: the InstanceState map and
\* the instance it leaves behind
TrackingSetattr(u, name, value) ==
    LET tracked == u \in DOMAIN instance_states /\ ~StartsWithUnderscore(name)
        st1 == MarkChanged(instance_states[u], name, GetAttr(sinst, u, name),
                           sinst[u].wrapped)
        st2 == IF IsListValue(name) THEN MarkInitialState(st1, name, value) ELSE st1
        set == SetField(sinst[u], name, value)
    IN [states |-> IF tracked THEN [instance_states EXCEPT ![u] = st2]
                   ELSE instance_states,
        inst |-> IF IsListValue(name) THEN [set EXCEPT !.wrapped = tracked] ELSE set]

\* a step of a run that exercises Session
SessionStep == unit = "Session" /\ Tick /\ UNCHANGED <<unit, mvars, ivars, pvars>>

\* history: the values the entries of original_values had when stored; an
\* entry that S has and the old map had not, or had differently, is stored now
Capture(u, S) ==
    [captured EXCEPT ![u] =
        [f \in DOMAIN S[u].original_values |->
            IF u \in DOMAIN instance_states
               /\ f \in DOMAIN instance_states[u].original_values
               /\ S[u].original_values[f] = instance_states[u].original_values[f]
               /\ f \in DOMAIN captured[u]
            THEN captured[u][f]
            ELSE DeepCopy(f, S[u].original_values[f])]]

NewWindow(I, u) ==
    [f \in PublicFields |->
        [start |-> DeepCopy(f, GetAttr(I, u, f)), n |-> 0, pure |-> TRUE]]

Assigned(u, name) ==
    IF u \in DOMAIN instance_states /\ name \in PublicFields
    THEN [win EXCEPT ![u][name].n = IF @ < 2 THEN @ + 1 ELSE @]
    ELSE win

\* Session.add
Session_add(u) ==
    /\ SessionStep
    /\ LET st0 == IF u \in DOMAIN instance_states
                  THEN instance_states[u] ELSE NewInstanceState
           st1 == IF sinst[u].wrapped THEN st0
                  ELSE MarkInitialState(st0, "tags", sinst[u].tags)
           S == Extend(instance_states, u, st1)
       IN /\ instance_states' = S
          /\ captured' = Capture(u, S)
    /\ tracked_instances' = Append(tracked_instances, u)
    /\ sinst' = [sinst EXCEPT ![u].wrapped = TRUE]
    /\ win' = IF u \in DOMAIN instance_states THEN win
              ELSE [win EXCEPT ![u] = NewWindow(sinst, u)]
    /\ dirty' = IF u \in DOMAIN instance_states THEN dirty ELSE dirty \ {u}
    /\ calls' = <<>>
    /\ op' = Result("add", u, "ok")
    /\ pre' = NoPre
    /\ UNCHANGED <<dcell, in_transaction>>

\* instance.<name> = value
Setattr(u, name, value) ==
    LET r == TrackingSetattr(u, name, value) IN
    /\ SessionStep
    /\ sinst' = [sinst EXCEPT ![u] = r.inst]
    /\ instance_states' = r.states
    /\ captured' = IF u \in DOMAIN instance_states
                   THEN Capture(u, r.states) ELSE captured
    /\ win' = Assigned(u, name)
    /\ dirty' = dirty \cup {u}
    /\ calls' = <<>>
    /\ op' = IF name = "_id" THEN Result("_id", u, "ok") ELSE Result("none", None, "ok")
    /\ pre' = NoPre
    /\ UNCHANGED <<dcell, tracked_instances, in_transaction>>

InPlace(u) ==
    /\ SessionStep
    /\ win' = IF u \in DOMAIN instance_states
              THEN [win EXCEPT ![u]["tags"].pure = FALSE] ELSE win
    /\ dirty' = dirty \cup {u}
    /\ calls' = <<>>
    /\ pre' = NoPre
    /\ UNCHANGED <<dcell, tracked_instances, in_transaction, captured>>

\* instance.tags.append(item): TrackedList.append once the list is wrapped,
\* list.append before
TagsListAppend(u, item) ==
    /\ Len(sinst[u].tags) < MaxLen
    /\ instance_states' =
            IF sinst[u].wrapped /\ u \in DOMAIN instance_states
            THEN [instance_states EXCEPT ![u] = ListMarkChanged(@, "tags")]
            ELSE instance_states
    /\ sinst' = [sinst EXCEPT ![u].tags = Append(@, item)]
    /\ op' = Result("none", None, "ok")
    /\ InPlace(u)

\* instance.tags.pop(): TrackedList.pop marks the field and then pops, which
\* raises IndexError on an empty list
TagsListPop(u) ==
    /\ instance_states' =
            IF sinst[u].wrapped /\ u \in DOMAIN instance_states
            THEN [instance_states EXCEPT ![u] = ListMarkChanged(@, "tags")]
            ELSE instance_states
    /\ sinst' = [sinst EXCEPT ![u].tags =
                    IF @ = <<>> THEN @ ELSE SubSeq(@, 1, Len(@) - 1)]
    /\ op' = Result("none", None, IF sinst[u].tags = <<>> THEN "IndexError" ELSE "ok")
    /\ InPlace(u)

Holds(l, c) == \E i \in 1..Len(l) : l[i] = [ref |-> c]

\* d["k"] = v on a dict object, reached through instance.tags[i] or through
\* a reference the application kept
DictSetKey(c, v) ==
    /\ SessionStep
    /\ dcell[c] # v
    /\ dcell' = [dcell EXCEPT ![c] = v]
    /\ win' = [u \in SInstances |->
                IF Holds(sinst[u].tags, c)
                   \/ ( /\ u \in DOMAIN instance_states
                        /\ "tags" \in DOMAIN instance_states[u].original_values
                        /\ Holds(instance_states[u].original_values["tags"], c) )
                THEN [win[u] EXCEPT !["tags"].pure = FALSE]
                ELSE win[u]]
    /\ dirty' = dirty \cup {u \in SInstances : Holds(sinst[u].tags, c)}
    /\ calls' = <<>>
    /\ op' = Result("none", None, "ok")
    /\ pre' = NoPre
    /\ UNCHANGED <<sinst, instance_states, tracked_instances, in_transaction, captured>>

\* the identifier insert_one returns to a Session
SFreshIds(I) == StoreIds \ {I[x].id : x \in SInstances}

\* Session._serialize_value(instance) in _insert_document, "_id" deleted
\* when it is None
InsertDocument(I, u) ==
    LET doc_data == [k \in PublicFields \cup {"_id"} |->
                        SerializeValue(k, GetAttr(I, u, k))]
    IN IF doc_data["_id"] = None THEN Pop(doc_data, "_id") ELSE doc_data

\* Session.build_update_query: the $set document, empty for None
BuildUpdateQuery(I, S, u) ==
    [field_name \in S[u].changed_fields \ {"_id"} |->
        SerializeValue(field_name, GetAttr(I, u, field_name))]

\* an Instance State left as it is
Cleared_kept(S, u) == S

\* state.changed_fields.clear(); state.original_values.clear()
Cleared(S, u) == [S EXCEPT ![u] = NewInstanceState]

\* Session.flush: _commit_instance for every entry of _tracked_instances;
\* failAt is the number of the store call that raises (0: none)
RECURSIVE CommitLoop(_, _, _, _, _)
CommitLoop(ts, I, S, cs, failAt) ==
    IF ts = <<>> THEN [sinst |-> I, states |-> S, calls |-> cs, error |-> "ok"]
    ELSE LET instance == Head(ts) IN
         IF instance \notin DOMAIN S \/ S[instance].changed_fields = {}
         THEN CommitLoop(Tail(ts), I, S, cs, failAt)
         ELSE LET update_query == BuildUpdateQuery(I, S, instance)
                  doc_id == I[instance].id
              IN IF DOMAIN update_query = {}
                 THEN CommitLoop(Tail(ts), I, S, cs, failAt)
                 ELSE IF doc_id # None
                 THEN IF ~ValidObjectId(doc_id)
                      THEN [sinst |-> I, states |-> S, calls |-> cs,
                            error |-> "InvalidId"]
                      ELSE IF Len(cs) + 1 = failAt
                      THEN [sinst |-> I, states |-> S,
                            calls |-> Append(cs, Call("update_one", doc_id, instance,
                                                      update_query, FALSE, 0)),
                            error |-> "StoreError"]
                      ELSE CommitLoop(Tail(ts), I, Cleared(S, instance),
                                      Append(cs, Call("update_one", doc_id, instance,
                                                      update_query, TRUE, 1)),
                                      failAt)
                 ELSE IF Len(cs) + 1 = failAt \/ SFreshIds(I) = {}
                      THEN [sinst |-> I, states |-> S,
                            calls |-> Append(cs, Call("insert_one", None, instance,
                                                      InsertDocument(I, instance),
                                                      FALSE, 0)),
                            error |-> "StoreError"]
                      ELSE LET inserted_id == MinId(SFreshIds(I)) IN
                           CommitLoop(Tail(ts),
                                      [I EXCEPT ![instance].id = inserted_id],
                                      Cleared(S, instance),
                                      Append(cs, Call("insert_one", inserted_id, instance,
                                                      InsertDocument(I, instance),
                                                      TRUE, 0)),
                                      failAt)

SessionPreState ==
    [snapshots |-> NoKeys, base |-> NoKeys, pending |-> tracked_instances,
     dirty |-> dirty, flushed |-> {}, states |-> instance_states,
     ids |-> [u \in SInstances |-> sinst[u].id]]

\* instances whose InstanceState an operation reset
Reset(S) == {u \in DOMAIN instance_states : S[u] # instance_states[u]}

\* Session.flush
Session_flush ==
    \E failAt \in 0..Len(tracked_instances) :
        LET r == CommitLoop(tracked_instances, sinst, instance_states, <<>>, failAt) IN
        /\ SessionStep
        /\ failAt = 0 \/ r.error = "StoreError"
        /\ sinst' = r.sinst
        /\ instance_states' = r.states
        /\ calls' = r.calls
        /\ op' = Result("flush", None, r.error)
        /\ pre' = SessionPreState
        /\ captured' = [u \in SInstances |->
                            IF u \in Reset(r.states) THEN NoKeys ELSE captured[u]]
        /\ win' = [u \in SInstances |->
                        IF u \in Reset(r.states) THEN NewWindow(r.sinst, u) ELSE win[u]]
        /\ dirty' = IF r.error = "ok" THEN {} ELSE dirty
        /\ UNCHANGED <<dcell, tracked_instances, in_transaction>>

\* Session._rollback_instance: every field that has an original value is
\* assigned that value, a list as a TrackedList over a deep copy; what the
\* assignments mark is cleared at the end
RollbackInstance(I, S, u) ==
    IF u \notin DOMAIN S THEN I
    ELSE [I EXCEPT ![u] =
            [id |-> @.id,
             username |-> IF "username" \in DOMAIN S[u].original_values
                          THEN S[u].original_values["username"] ELSE @.username,
             tags |-> IF "tags" \in DOMAIN S[u].original_values
                      THEN DeepCopy("tags", S[u].original_values["tags"]) ELSE @.tags,
             wrapped |-> IF "tags" \in DOMAIN S[u].original_values THEN TRUE
                         ELSE @.wrapped]]

RECURSIVE RollbackLoop(_, _, _)
RollbackLoop(ts, I, S) ==
    IF ts = <<>> THEN [sinst |-> I, states |-> S]
    ELSE LET instance == Head(ts) IN
         RollbackLoop(Tail(ts), RollbackInstance(I, S, instance),
                      IF instance \in DOMAIN S THEN Cleared(S, instance) ELSE S)

\* Session.rollback
Session_rollback ==
    LET r == RollbackLoop(tracked_instances, sinst, instance_states) IN
    /\ SessionStep
    /\ sinst' = r.sinst
    /\ instance_states' = r.states
    /\ calls' = IF in_transaction
                THEN <<Call("abort_transaction", None, None, NoSnap, TRUE, 0)>>
                ELSE <<>>
    /\ in_transaction' = FALSE
    /\ op' = Result("rollback", None, "ok")
    /\ pre' = NoPre
    /\ captured' = [u \in SInstances |-> NoKeys]
    /\ win' = [u \in SInstances |-> NewWindow(r.sinst, u)]
    /\ UNCHANGED <<dcell, tracked_instances, dirty>>

\* a handler that never aborts
AbortIfActive_never(active) == <<>>

\* if self.mongo_session and self.mongo_session.in_transaction:
\*     await self.mongo_session.abort_transaction()
AbortIfActive(active) ==
    IF active THEN <<Call("abort_transaction", None, None, NoSnap, TRUE, 0)>>
    ELSE <<>>

\* a commit_transaction that raised; active tells whether the driver still
\* reports the transaction in progress afterwards
FailedCommit(active) ==
    Call("commit_transaction", None, None, [active |-> active], FALSE, 0)

\* Session.commit: flush, then commit_transaction when a transaction is in
\* progress; on an exception of either, abort_transaction when a transaction
\* is in progress, and the exception again. raises: commit_transaction
\* raises; active: what in_transaction reads after it raised.
Session_commit ==
    \E failAt \in 0..Len(tracked_instances), raises \in BOOLEAN, active \in BOOLEAN :
        LET r == CommitLoop(tracked_instances, sinst, instance_states, <<>>, failAt) IN
        /\ SessionStep
        /\ failAt = 0 \/ r.error = "StoreError"
        /\ raises => (r.error = "ok" /\ in_transaction)
        /\ active => raises
        /\ sinst' = r.sinst
        /\ instance_states' = r.states
        /\ calls' =
                IF r.error # "ok" THEN r.calls \o AbortIfActive(in_transaction)
                ELSE IF ~in_transaction THEN r.calls
                ELSE IF raises
                THEN Append(r.calls, FailedCommit(active)) \o AbortIfActive(active)
                ELSE Append(r.calls, Call("commit_transaction", None, None,
                                          NoSnap, TRUE, 0))
        /\ in_transaction' = FALSE
        /\ op' = Result("commit", None,
                        IF r.error # "ok" THEN r.error
                        ELSE IF raises THEN "OperationFailure" ELSE "ok")
        /\ pre' = SessionPreState
        /\ captured' = [u \in SInstances |->
                            IF u \in Reset(r.states) THEN NoKeys ELSE captured[u]]
        /\ win' = [u \in SInstances |->
                        IF u \in Reset(r.states) THEN NewWindow(r.sinst, u) ELSE win[u]]
        /\ dirty' = IF r.error = "ok" THEN {} ELSE dirty
        /\ UNCHANGED <<dcell, tracked_instances>>

\* Session.close: the Instance State of every tracked instance is deleted
\* and the list of tracked instances cleared
Session_close ==
    /\ SessionStep
    /\ instance_states' =
            [u \in DOMAIN instance_states
                    \ {tracked_instances[i] : i \in 1..Len(tracked_instances)} |->
                instance_states[u]]
    /\ tracked_instances' = <<>>
    /\ captured' = [u \in SInstances |->
                        IF u \in DOMAIN instance_states' THEN captured[u] ELSE NoKeys]
    /\ calls' = <<>>
    /\ op' = Result("close", None, "ok")
    /\ pre' = NoPre
    /\ UNCHANGED <<sinst, dcell, in_transaction, win, dirty>>

\* ------------------------------------------------------- instrument_class
\* The dataclasses of the application; Admin is declared as class Admin(User).
Classes == {"User", "Admin", "Tag"}

\* cls.__mro__ without object
Mro(cls) == IF cls = "Admin" THEN {"Admin", "User"} ELSE {cls}

\* is_class_instrumented: hasattr(cls, _INSTRUMENTED_MARKER), which finds an
\* attribute set on the class or on any class of its __mro__
IsClassInstrumented(K, cls) == \E c \in Mro(cls) : K[c].marker

\* instrument_class(cls)
InstrumentClass(cls) ==
    /\ unit = "instrument_class"
    /\ Tick
    /\ IF IsClassInstrumented(klass, cls)
       THEN /\ op' = Result("instrument_class", cls, "ClassAlreadyInstrumentedError")
            /\ UNCHANGED klass
       ELSE /\ op' = Result("instrument_class", cls, "ok")
            /\ klass' = [klass EXCEPT ![cls] =
                            [marker |-> TRUE, installs |-> @.installs + 1]]
    /\ called' = called \cup {cls}
    /\ UNCHANGED <<unit, in_transaction, calls, dirty, pre, mvars, svars, pvars>>

\* ------------------------------------------------------- proxies of Session
\* One instance of an instrumented dataclass whose fields hold every shape
\* of value (a scalar, a list of records, a list of lists, a record and a
\* dict), the proxies Session.add puts around them, and two Sessions, each
\* with its own map of Instance States.
\*   Doc:     username, tags: list[Tag], matrix: list[list], profile: Profile,
\*            metadata: dict
\*   Tag:     name, subs: list          Profile: bio, items: list
\* Runs of at most MaxProxyOps operations are explored, on lists of at most
\* MaxItems items.
MaxProxyOps == 4
MaxItems == 2

DocFields == {"username", "tags", "matrix", "profile", "metadata"}

ProxySessions == {"S1", "S2"}

\* ---- the values: every value is a node with its Python type in t
Scalar(v) == [t |-> "scalar", v |-> v]
PlainList(items) == [t |-> "list", items |-> items]
Dict(f) == [t |-> "dict", f |-> f]
Record(cls, f) == [t |-> "record", cls |-> cls, f |-> f]
\* TrackedList(data, instance, field_name, states): inst is the instance
\* whose id the proxy stores (None when it was built without a root
\* instance), map the Session whose _instance_states it holds
TrackedListOf(field_name, inst, map, items) ==
    [t |-> "TrackedList", field |-> field_name, inst |-> inst, map |-> map,
     items |-> items]
\* TrackedObject(obj, parent); the parent is the proxy or instance that holds it
TrackedObjectOf(obj) == [t |-> "TrackedObject", obj |-> obj]

\* hasattr(value, "__dict__"): true of a dataclass record and of a
\* TrackedList (a list subclass with attributes), false of a plain list, a
\* dict and a scalar
HasDict(n) == n.t \in {"record", "TrackedList"}

NewTag == Record("Tag", [name |-> Scalar(0), subs |-> PlainList(<<>>)])

\* ---- values without proxies, and serialized values
\* The value a proxy stands for: _unwrap_for_copy and the _obj of a
\* TrackedObject, all the way down.
RECURSIVE Unwrap(_)
Unwrap(n) ==
    CASE n.t = "TrackedObject" -> Unwrap(n.obj)
      [] n.t \in {"TrackedList", "list"} ->
            PlainList([i \in 1..Len(n.items) |-> Unwrap(n.items[i])])
      [] n.t = "record" -> Record(n.cls, [a \in DOMAIN n.f |-> Unwrap(n.f[a])])
      [] n.t = "dict" -> Dict([k \in DOMAIN n.f |-> Unwrap(n.f[k])])
      [] OTHER -> n

\* a serialization that does not look inside a TrackedObject
RECURSIVE SerializeNode_opaque(_)
SerializeNode_opaque(value) ==
    CASE value.t \in {"TrackedList", "list"} ->
            PlainList([i \in 1..Len(value.items) |->
                          SerializeNode_opaque(value.items[i])])
      [] value.t = "dict" ->
            Dict([k \in DOMAIN value.f |-> SerializeNode_opaque(value.f[k])])
      [] value.t = "record" ->
            Dict([a \in DOMAIN value.f |-> SerializeNode_opaque(value.f[a])])
      [] OTHER -> value

\* Session._serialize_value: a TrackedObject is replaced by its _obj, a
\* TrackedList and a list become a list of serialized items, a dict a dict
\* of serialized values, a dataclass record a dict of its serialized
\* fields, anything else is returned as it is
RECURSIVE SerializeNode(_)
SerializeNode(value) ==
    CASE value.t = "TrackedObject" -> SerializeNode(value.obj)
      [] value.t \in {"TrackedList", "list"} ->
            PlainList([i \in 1..Len(value.items) |-> SerializeNode(value.items[i])])
      [] value.t = "dict" ->
            Dict([k \in DOMAIN value.f |-> SerializeNode(value.f[k])])
      [] value.t = "record" ->
            Dict([a \in DOMAIN value.f |-> SerializeNode(value.f[a])])
      [] OTHER -> value

\* No TrackedList and no TrackedObject anywhere in the value.
RECURSIVE NoProxy(_)
NoProxy(n) ==
    CASE n.t \in {"TrackedObject", "TrackedList"} -> FALSE
      [] n.t = "list" -> \A i \in 1..Len(n.items) : NoProxy(n.items[i])
      [] n.t \in {"dict", "record"} -> \A k \in DOMAIN n.f : NoProxy(n.f[k])
      [] OTHER -> TRUE

\* ---- wrapping
\* TrackedList.__init__: _wrap_nested_lists makes every plain list among the
\* items a nested TrackedList of the same field, instance and map, and
\* _wrap_objects_in_list puts every other item that has a __dict__ in a
\* TrackedObject
RECURSIVE WrapItems(_, _, _, _)
WrapItems(items, field_name, inst, map) ==
    [i \in 1..Len(items) |->
        LET item == items[i] IN
        IF item.t = "list"
        THEN TrackedListOf(field_name, inst, map,
                           WrapItems(item.items, field_name, inst, map))
        ELSE IF item.t \in {"TrackedObject", "TrackedList"} THEN item
        ELSE IF HasDict(item) THEN TrackedObjectOf(item)
        ELSE item]

NewTrackedList(data, field_name, inst, map) ==
    TrackedListOf(field_name, inst, map, WrapItems(data.items, field_name, inst, map))

\* Session._wrap_mutable_fields for one field: a list becomes a TrackedList
\* over the Session's map, a dataclass record a TrackedObject, anything else
\* (a dict too) stays
WrapField(field_name, value, map) ==
    IF value.t = "list" THEN NewTrackedList(value, field_name, "doc", map)
    ELSE IF value.t = "record" THEN TrackedObjectOf(value)
    ELSE value

\* The original values after the fields of the instance were wrapped:
\* TrackedList._mark_initial_state stores the unwrapped list and
\* _wrap_mutable_fields a deep copy of the record, each only for a field
\* that has no original value yet.
InitialValues(original_values, doc, names) ==
    LET new == {f \in names : doc[f].t \in {"list", "record"}} IN
    [f \in DOMAIN original_values \cup new |->
        IF f \in DOMAIN original_values THEN original_values[f]
        ELSE Unwrap(doc[f])]

\* what append, insert, extend, __setitem__ and __getitem__ of a TrackedList
\* make of a plain item: a nested TrackedList of _get_root_instance() (None
\* if the map has no Instance State under the stored id), a TrackedObject
WrapNewItem(n, item) ==
    IF item.t = "list"
    THEN NewTrackedList(item, n.field,
                        IF n.inst \in DOMAIN pstate.states[n.map]
                        THEN n.inst ELSE None,
                        n.map)
    ELSE IF HasDict(item) /\ item.t # "TrackedObject" THEN TrackedObjectOf(item)
    ELSE item

\* ---- reaching a value from the instance
\* The attribute and index steps that lead to the places the application
\* mutates.
StepsOf(place) ==
    CASE place = "tags[0]" -> <<"tags", "[0]">>
      [] place = "tags[0].subs" -> <<"tags", "[0]", "subs">>
      [] place = "matrix[0]" -> <<"matrix", "[0]">>
      [] place = "profile.items" -> <<"profile", "items">>
      [] OTHER -> <<place>>

\* The top-level field a place lies in.
RootField(place) == Head(StepsOf(place))

\* What a TrackedObject knows of its parents: the chain of _parent ends at
\* a TrackedList (anchor "TrackedList", with its field, instance and map),
\* at the instance itself (anchor "instance", with the field that holds the
\* object) or nowhere, for a plain record (anchor "none").
Parents(anchor, field_name, inst, map) ==
    [anchor |-> anchor, field |-> field_name, inst |-> inst, map |-> map]

\* Follows attribute and index steps from a node as the proxies do:
\* TrackedList.__getitem__ returns the stored proxy of an item;
\* TrackedObject.__getattribute__ returns an attribute that has a __dict__
\* (a record, and a TrackedList stored by an earlier access) inside a new
\* TrackedObject, a plain list attribute as a nested TrackedList over the
\* map of the root instance's Session when _get_root_instance finds a root
\* (through a TrackedList parent only), and any other value as it is; plain
\* lists and records return what they hold. Yields the value reached and,
\* for a TrackedObject, what it knows of its parents.
RECURSIVE Look(_, _, _)
Look(n, ctx, path) ==
    IF path = <<>> THEN [err |-> "ok", node |-> n, ctx |-> ctx]
    ELSE IF Head(path) = "[0]"
    THEN IF n.items = <<>> THEN [err |-> "IndexError", node |-> n, ctx |-> ctx]
         ELSE IF n.t = "TrackedList"
         THEN Look(IF n.items[1].t \in {"TrackedList", "TrackedObject"}
                   THEN n.items[1] ELSE WrapNewItem(n, n.items[1]),
                   Parents("TrackedList", n.field, n.inst, n.map), Tail(path))
         ELSE Look(n.items[1], Parents("none", "", None, None), Tail(path))
    ELSE IF n.t = "TrackedObject"
    THEN LET value == n.obj.f[Head(path)] IN
         IF HasDict(value) /\ value.t # "TrackedObject"
         THEN Look(TrackedObjectOf(value), ctx, Tail(path))
         ELSE IF /\ value.t = "list"
                 /\ ctx.anchor = "TrackedList"
                 /\ ctx.inst \in DOMAIN pstate.states[ctx.map]
                 /\ pstate.ref # None
         THEN Look(NewTrackedList(value, ctx.field, ctx.inst, pstate.ref),
                   ctx, Tail(path))
         ELSE Look(value, ctx, Tail(path))
    ELSE Look(n.f[Head(path)], Parents("none", "", None, None), Tail(path))

\* getattr(instance, field) and the path after it
Reach(place) ==
    Look(pdoc[RootField(place)], Parents("instance", RootField(place), "doc", None),
         Tail(StepsOf(place)))

\* The node with the value at the end of the path replaced.
RECURSIVE PutIn(_, _, _)
PutIn(n, path, new) ==
    IF path = <<>> THEN new
    ELSE IF Head(path) = "[0]"
    THEN [n EXCEPT !.items[1] = PutIn(@, Tail(path), new)]
    ELSE IF n.t = "TrackedObject"
    THEN [n EXCEPT !.obj.f[Head(path)] = PutIn(@, Tail(path), new)]
    ELSE [n EXCEPT !.f[Head(path)] = PutIn(@, Tail(path), new)]

Put(place, new) ==
    [pdoc EXCEPT ![RootField(place)] = PutIn(@, Tail(StepsOf(place)), new)]

\* ---- marking
\* a _mark_changed that marks nothing
ListMarked_none(ST, n) == ST

\* a _mark_changed that writes into the maps of all Sessions
ListMarked_shared(ST, n) ==
    [s \in ProxySessions |->
        [i \in DOMAIN ST[s] |-> [ST[s][i] EXCEPT !.changed_fields = @ \cup {n.field}]]]

\* TrackedList._mark_changed: adds the field to the changed fields of the
\* Instance State its map holds under the stored instance id, if there is one
ListMarked(ST, n) ==
    IF n.inst \in DOMAIN ST[n.map]
    THEN [ST EXCEPT ![n.map][n.inst].changed_fields = @ \cup {n.field}]
    ELSE ST

\* TrackedObject._mark_parent_changed: through a TrackedList parent the
\* list's _mark_changed; at the instance _mark_root_instance_changed, which
\* goes through the instance's _session_ref and looks the object up among
\* the instance's fields
ObjectMarked(ST, ctx) ==
    IF ctx.anchor = "TrackedList" THEN ListMarked(ST, ctx)
    ELSE IF /\ ctx.anchor = "instance"
            /\ pstate.ref # None
            /\ ctx.inst \in DOMAIN ST[pstate.ref]
    THEN [ST EXCEPT ![pstate.ref][ctx.inst].changed_fields = @ \cup {ctx.field}]
    ELSE ST

\* instance.get_changed_fields(), through the instance's _session_ref
ChangedFieldsOf ==
    IF pstate.ref # None /\ "doc" \in DOMAIN pstate.states[pstate.ref]
    THEN pstate.states[pstate.ref]["doc"].changed_fields ELSE {}

\* a query that carries every field of the instance
ProxyUpdateQuery_all == [f \in DocFields |-> SerializeNode(pdoc[f])]

\* Session.build_update_query of the instance by the Session it refers to
ProxyUpdateQuery ==
    [f \in ChangedFieldsOf \ {"_id"} |-> SerializeNode(pdoc[f])]

\* ---- the operations of list
ListKinds == {"append", "extend", "insert", "remove", "pop", "clear",
              "__setitem__", "__delitem__"}

\* The methods that change a list and that TrackedList inherits from list
\* as they are.
InheritedKinds == {"sort", "reverse"}

\* list.<kind> with the given new items (one item but for extend), at
\* index 0 where the operation takes an index: the new content and the
\* exception raised, if any. remove compares with ==, which a proxy
\* answers as its value does; sort is the stable sort with a key, the name
\* of a Tag or the scalar itself.
ListOp(kind, items, new) ==
    LET found == {i \in 1..Len(items) : Unwrap(items[i]) = Unwrap(new[1])}
        first == CHOOSE i \in found : \A j \in found : i <= j
        n == Len(items)
        key(i) == LET w == Unwrap(items[i]) IN
                  IF w.t = "record" THEN w.f.name.v ELSE w.v
        order == CHOOSE q \in [1..n -> 1..n] :
                    \A i, j \in 1..n :
                        i < j => \/ key(q[i]) < key(q[j])
                                 \/ key(q[i]) = key(q[j]) /\ q[i] < q[j]
    IN
    CASE kind = "sort" -> [items |-> [i \in 1..n |-> items[order[i]]], err |-> "ok"]
      [] kind = "reverse" -> [items |-> [i \in 1..n |-> items[n + 1 - i]], err |-> "ok"]
      [] kind = "append" -> [items |-> Append(items, new[1]), err |-> "ok"]
      [] kind = "extend" -> [items |-> items \o new, err |-> "ok"]
      [] kind = "insert" -> [items |-> <<new[1]>> \o items, err |-> "ok"]
      [] kind = "remove" ->
            IF found = {} THEN [items |-> items, err |-> "ValueError"]
            ELSE [items |-> SubSeq(items, 1, first - 1)
                                \o SubSeq(items, first + 1, Len(items)),
                  err |-> "ok"]
      [] kind = "clear" -> [items |-> <<>>, err |-> "ok"]
      [] kind \in {"pop", "__setitem__", "__delitem__"} /\ items = <<>> ->
            [items |-> items, err |-> "IndexError"]
      [] kind = "pop" /\ items # <<>> ->
            [items |-> SubSeq(items, 1, Len(items) - 1), err |-> "ok"]
      [] kind = "__setitem__" /\ items # <<>> ->
            [items |-> <<new[1]>> \o Tail(items), err |-> "ok"]
      [] kind = "__delitem__" /\ items # <<>> ->
            [items |-> Tail(items), err |-> "ok"]

\* ---- the steps of a run that exercises the proxies
ProxyStep ==
    /\ unit = "proxies"
    /\ steps < MaxProxyOps
    /\ steps' = steps + 1
    /\ UNCHANGED <<unit, in_transaction, calls, dirty, pre, mvars, svars, ivars>>

\* session.add(instance): ClassNotInstrumentedError for an instance of a
\* class that is not instrumented; otherwise an InstanceState if the
\* Session's map has none, the instance's _session_ref, then
\* _wrap_mutable_fields. "doc" is the instance above; "other" a second
\* instance of its class, User, with scalar fields only; "plain" an
\* instance of Tag, which instrument_class was never called for.
ProxyAdd(s, inst) ==
    /\ ProxyStep
    /\ LET st == IF inst \in DOMAIN pstate.states[s]
                 THEN pstate.states[s][inst] ELSE NewInstanceState
       IN IF ~IsClassInstrumented(klass, IF inst = "plain" THEN "Tag" ELSE "User")
          THEN UNCHANGED pvars
          ELSE IF inst = "doc"
          THEN /\ pstate' =
                    [ref |-> s,
                     states |-> [pstate.states EXCEPT ![s] =
                        Extend(@, inst,
                               [st EXCEPT !.original_values =
                                    InitialValues(@, pdoc, DocFields)])]]
               /\ pdoc' = [f \in DocFields |-> WrapField(f, pdoc[f], s)]
          ELSE /\ pstate' = [pstate EXCEPT !.states[s] = Extend(@, inst, st)]
               /\ pdoc' = pdoc
    /\ op' = Result("add", inst,
                    IF IsClassInstrumented(klass, IF inst = "plain" THEN "Tag" ELSE "User")
                    THEN "ok" ELSE "ClassNotInstrumentedError")

\* session.close(): the Instance States of the tracked instances are deleted
ProxyClose(s) ==
    /\ ProxyStep
    /\ pstate' = [pstate EXCEPT !.states[s] = NoKeys]
    /\ pdoc' = pdoc
    /\ op' = Result("close", s, "ok")

\* instance.<name> = value through tracking_setattr: with an Instance State
\* in the Session the instance refers to, mark_changed records the field
\* (and the old value, if the field was not changed yet), and a plain list
\* value is stored as a TrackedList, which marks its initial state
ProxySetattr(name, value) ==
    /\ ProxyStep
    /\ IF pstate.ref # None /\ "doc" \in DOMAIN pstate.states[pstate.ref]
       THEN LET st == pstate.states[pstate.ref]["doc"]
                marked == IF name \in st.changed_fields THEN st
                          ELSE [changed_fields |-> st.changed_fields \cup {name},
                                original_values |->
                                    Extend(st.original_values, name,
                                           Unwrap(pdoc[name]))]
                doc == [pdoc EXCEPT ![name] = value]
            IN /\ pstate' = [pstate EXCEPT !.states[pstate.ref]["doc"] =
                                [marked EXCEPT !.original_values =
                                    InitialValues(@, doc,
                                        {f \in {name} : value.t = "list"})]]
               /\ pdoc' = [pdoc EXCEPT ![name] =
                              IF value.t = "list"
                              THEN NewTrackedList(value, name, "doc", pstate.ref)
                              ELSE value]
       ELSE /\ pstate' = pstate
            /\ pdoc' = [pdoc EXCEPT ![name] = value]
    /\ op' = Result("setattr", name, "ok")

\* <place>.<kind>(...) for a list reached from the instance: a TrackedList
\* marks, wraps the new items and then does what list does, but for the
\* methods it inherits, where it does only that; so does a plain list for
\* every method. A TrackedObject in the place of the list (a stored
\* TrackedList handed out inside a new TrackedObject) hands out the method
\* inside a TrackedObject too, which cannot be called, and supports neither
\* item assignment nor item deletion.
ProxyListOp(place, kind, new) ==
    /\ ProxyStep
    /\ LET h == Reach(place) IN
       IF h.err # "ok"
       THEN /\ op' = Result(kind, place, h.err)
            /\ UNCHANGED pvars
       ELSE IF h.node.t = "TrackedObject"
       THEN /\ op' = Result(kind, place, "TypeError")
            /\ UNCHANGED pvars
       ELSE LET n == h.node
                stored == IF n.t = "TrackedList"
                             /\ kind \in {"append", "extend", "insert", "__setitem__"}
                          THEN [i \in 1..Len(new) |-> WrapNewItem(n, new[i])]
                          ELSE new
                r == ListOp(kind, n.items, stored)
            IN /\ n.t \in {"list", "TrackedList"}
               /\ Len(r.items) <= MaxItems
               /\ pstate' = [pstate EXCEPT !.states =
                                IF n.t = "TrackedList" /\ kind \in ListKinds
                                THEN ListMarked(@, n) ELSE @]
               /\ pdoc' = Put(place, [n EXCEPT !.items = r.items])
               /\ op' = Result(kind, place, r.err)

\* <place>.<name> = value for a record reached from the instance: a
\* TrackedObject marks through its parents and then sets the attribute of
\* its _obj, a plain record only sets it
ProxyObjectSetattr(place, name, value) ==
    /\ ProxyStep
    /\ LET h == Reach(place) IN
       IF h.err # "ok"
       THEN /\ op' = Result("setattr", place, h.err)
            /\ UNCHANGED pvars
       ELSE /\ h.node.t \in {"TrackedObject", "record"}
            /\ IF h.node.t = "TrackedObject"
               THEN /\ pstate' = [pstate EXCEPT !.states = ObjectMarked(@, h.ctx)]
                    /\ pdoc' = Put(place, [h.node EXCEPT !.obj.f[name] = value])
               ELSE /\ pstate' = pstate
                    /\ pdoc' = Put(place, [h.node EXCEPT !.f[name] = value])
            /\ op' = Result("setattr", place, "ok")

\* instance.<name> += new (kind __iadd__) and instance.<name> *= 0 (kind
\* __imul__): list.__iadd__ or list.__imul__, which TrackedList inherits,
\* changes the list in place and returns it, and the result is assigned to
\* the attribute through tracking_setattr, for which the old value is the
\* list as already changed.
ProxyAugmentedAssign(name, kind, new) ==
    LET value == [pdoc[name] EXCEPT !.items =
                        IF kind = "__iadd__" THEN @ \o new ELSE <<>>]
    IN
    /\ ProxyStep
    /\ pdoc[name].t \in {"list", "TrackedList"}
    /\ Len(value.items) <= MaxItems
    /\ IF pstate.ref # None /\ "doc" \in DOMAIN pstate.states[pstate.ref]
       THEN LET st == pstate.states[pstate.ref]["doc"]
                marked == IF name \in st.changed_fields THEN st
                          ELSE [changed_fields |-> st.changed_fields \cup {name},
                                original_values |->
                                    Extend(st.original_values, name, Unwrap(value))]
                doc == [pdoc EXCEPT ![name] = value]
            IN /\ pstate' = [pstate EXCEPT !.states[pstate.ref]["doc"] =
                                [marked EXCEPT !.original_values =
                                    InitialValues(@, doc,
                                        {f \in {name} : value.t = "list"})]]
               /\ pdoc' = [pdoc EXCEPT ![name] =
                              IF value.t = "list"
                              THEN NewTrackedList(value, name, "doc", pstate.ref)
                              ELSE value]
       ELSE /\ pstate' = pstate
            /\ pdoc' = [pdoc EXCEPT ![name] = value]
    /\ op' = Result(kind, name, "ok")

\* instance.metadata[key] = value: the field holds the dict itself, which
\* Session.add has not replaced
ProxyDictSetitem(key, value) ==
    /\ ProxyStep
    /\ pdoc.metadata.t = "dict"
    /\ pdoc' = [pdoc EXCEPT !.metadata.f = Extend(@, key, value)]
    /\ pstate' = pstate
    /\ op' = Result("__setitem__", "metadata", "ok")

\* The items the application stores in the list at a place.
NewItems(place) ==
    CASE place = "tags" -> {NewTag}
      [] place = "matrix" -> {PlainList(<<>>)}
      [] OTHER -> {Scalar(1)}

ListPlaces == {"tags", "tags[0].subs", "matrix", "matrix[0]", "profile.items"}

\* the places below the value a field holds
NestedPlaces == {"tags[0]", "tags[0].subs", "matrix[0]", "profile", "profile.items"}

\* The instance's fields as the application would compare them.
PlainDoc == [f \in DocFields |-> Unwrap(pdoc[f])]

ProxyVarsInit ==
    /\ pdoc = [username |-> Scalar(0),
               tags |-> PlainList(<<NewTag>>),
               matrix |-> PlainList(<<PlainList(<<>>)>>),
               profile |-> Record("Profile", [bio |-> Scalar(0),
                                              items |-> PlainList(<<>>)]),
               metadata |-> Dict([k |-> Scalar(0)])]
    /\ pstate = [ref |-> None, states |-> [s \in ProxySessions |-> NoKeys]]

\* ------------------------------------------------------------------- runs
\* The entities as constructed: e2 either has its own list and dict objects
\* or was constructed with e1's.
MongoVarsInit(shared_objects, id1, id2) ==
    /\ ent = [e \in Entities |->
                [id |-> IF e = "e1" THEN id1 ELSE id2, name |-> 0,
                 tags |-> IF shared_objects THEN "e1" ELSE e,
                 metadata |-> IF shared_objects THEN "e1" ELSE e]]
    /\ lists = [c \in Entities |-> <<>>]
    /\ inner = [c \in Entities |-> 0]
    /\ tracked_entities = <<>>
    /\ original_snapshots = NoKeys
    /\ pending_inserts = <<>>
    /\ base = NoKeys
    /\ flushed = {}
    /\ rolled_back = FALSE

\* The instances as constructed; u1's tags may hold a dict.
SessionVarsInit(with_dict, id1, id2) ==
    /\ sinst = [u \in SInstances |->
                [id |-> IF u = "u1" THEN id1 ELSE id2, username |-> 0,
                 tags |-> IF with_dict /\ u = "u1" THEN <<[ref |-> "d1"]>> ELSE <<>>,
                 wrapped |-> FALSE]]
    /\ dcell = [c \in DictCells |-> 0]
    /\ instance_states = NoKeys
    /\ tracked_instances = <<>>
    /\ captured = [u \in SInstances |-> NoKeys]
    /\ win = [u \in SInstances |-> NewWindow(sinst, u)]

\* No class is instrumented when the program starts.
InstrumentVarsInit ==
    /\ klass = [c \in Classes |-> [marker |-> FALSE, installs |-> 0]]
    /\ called = {}

SharedInit ==
    /\ in_transaction = TRUE
    /\ calls = <<>>
    /\ op = Result("none", None, "ok")
    /\ steps = 0
    /\ dirty = {}
    /\ pre = NoPre

\* the entities come with or without an identifier, e2 possibly of a class
\* without an _id field; two entities constructed with the same list and
\* dict objects both have an identifier
MongoInit ==
    /\ unit = "MongoSession"
    /\ SharedInit
    /\ \/ \E id1 \in {None, "a"}, id2 \in {None, "b"} :
                MongoVarsInit(FALSE, id1, id2)
       \/ MongoVarsInit(TRUE, "a", "b")
       \/ MongoVarsInit(FALSE, None, Absent)
    /\ SessionVarsInit(FALSE, None, None)
    /\ InstrumentVarsInit
    /\ ProxyVarsInit

\* u1 is new or was loaded from the store, u2 is new; an instance whose
\* tags hold a dict was loaded
SessionInit ==
    /\ unit = "Session"
    /\ SharedInit
    /\ MongoVarsInit(FALSE, None, None)
    /\ \/ \E id1 \in {None, "a"} : SessionVarsInit(FALSE, id1, None)
       \/ SessionVarsInit(TRUE, "a", None)
    /\ InstrumentVarsInit
    /\ ProxyVarsInit

InstrumentInit ==
    /\ unit = "instrument_class"
    /\ SharedInit
    /\ MongoVarsInit(FALSE, None, None)
    /\ SessionVarsInit(FALSE, None, None)
    /\ InstrumentVarsInit
    /\ ProxyVarsInit

\* instrument_class(User) has run
ProxyInit ==
    /\ unit = "proxies"
    /\ SharedInit
    /\ MongoVarsInit(FALSE, None, None)
    /\ SessionVarsInit(FALSE, None, None)
    /\ klass = [c \in Classes |-> [marker |-> c = "User",
                                   installs |-> IF c = "User" THEN 1 ELSE 0]]
    /\ called = {"User"}
    /\ ProxyVarsInit

\* the entities as constructed, with or without an identifier or with one
\* that is no ObjectId
TrackerInit ==
    /\ unit = "MongoChangeTracker"
    /\ SharedInit
    /\ \E id1 \in {None, "a", "bad"}, id2 \in {Absent, "a", "b"} :
            MongoVarsInit(FALSE, id1, id2)
    /\ SessionVarsInit(FALSE, None, None)
    /\ InstrumentVarsInit
    /\ ProxyVarsInit

Init == MongoInit \/ SessionInit \/ InstrumentInit \/ ProxyInit \/ TrackerInit

MongoNext ==
    \/ \E o \in Entities \cup OtherObjects : MongoSession_add(o)
    \/ MongoSession_flush
    \/ \E e \in Entities, v \in Vals : MongoSession_flush_suspended(e, v)
    \/ MongoSession_commit
    \/ MongoSession_rollback
    \/ \E e \in Entities, v \in Vals : SetName(e, v)
    \/ \E e \in Entities, i \in AssignedIds \cup {None} : SetId(e, i)
    \/ \E e \in Entities, v \in Vals : TagsAppend(e, v)
    \/ \E e \in Entities : TagsPop(e)
    \/ \E e \in Entities, v \in Vals : SetAvatar(e, v)

SessionNext ==
    \/ \E u \in SInstances : Session_add(u)
    \/ Session_flush
    \/ Session_rollback
    \/ Session_commit
    \/ Session_close
    \/ \E u \in SInstances, v \in Vals : Setattr(u, "username", v)
    \/ \E u \in SInstances, l \in ListVals : Setattr(u, "tags", l)
    \/ \E u \in SInstances, i \in {"a", None} : Setattr(u, "_id", i)
    \/ \E u \in SInstances, item \in Elems : TagsListAppend(u, item)
    \/ \E u \in SInstances : TagsListPop(u)
    \/ \E c \in DictCells, v \in Vals : DictSetKey(c, v)

InstrumentNext == \E cls \in Classes : InstrumentClass(cls)

\* every list operation is applied to the lists the fields hold; the lists
\* below them are appended to, popped from and assigned into
ProxyNext ==
    \/ \E s \in ProxySessions, inst \in {"doc", "other", "plain"} : ProxyAdd(s, inst)
    \/ \E s \in ProxySessions : ProxyClose(s)
    \/ \E v \in Vals : ProxySetattr("username", Scalar(v))
    \/ ProxySetattr("tags", PlainList(<<NewTag>>))
    \/ \E place \in {"tags", "matrix"}, kind \in ListKinds \ {"extend"} :
          \E item \in NewItems(place) : ProxyListOp(place, kind, <<item>>)
    \/ \E place \in ListPlaces \ {"tags", "matrix"},
             kind \in {"append", "pop", "__setitem__"} :
          \E item \in NewItems(place) : ProxyListOp(place, kind, <<item>>)
    \/ \E k \in 0..1 :
          \E item \in NewItems("tags") :
              ProxyListOp("tags", "extend", SubSeq(<<item>>, 1, k))
    \/ \E kind \in InheritedKinds : ProxyListOp("tags", kind, <<>>)
    \/ \E item \in NewItems("tags") : ProxyAugmentedAssign("tags", "__iadd__", <<item>>)
    \/ ProxyAugmentedAssign("tags", "__imul__", <<>>)
    \/ \E v \in Vals : ProxyObjectSetattr("tags[0]", "name", Scalar(v))
    \/ \E v \in Vals : ProxyObjectSetattr("profile", "bio", Scalar(v))
    \/ \E key \in {"k", "k2"}, v \in Vals : ProxyDictSetitem(key, Scalar(v))

TrackerNext ==
    \/ \E o \in Entities \cup OtherObjects : MongoChangeTracker_track(o)
    \/ MongoChangeTracker_save
    \/ MongoChangeTracker_commit
    \/ MongoChangeTracker_rollback
    \/ MongoChangeTracker_clear
    \/ \E e \in Entities, v \in Vals : TrackerSetattr(e, "name", v)
    \/ \E e \in Entities, i \in {"b", None} : TrackerSetattr(e, "_id", i)

Next == MongoNext \/ SessionNext \/ InstrumentNext \/ ProxyNext \/ TrackerNext

MongoSpec == MongoInit /\ [][MongoNext]_vars

SessionSpec == SessionInit /\ [][SessionNext]_vars

ProxySpec == ProxyInit /\ [][ProxyNext]_vars

TrackerSpec == TrackerInit /\ [][TrackerNext]_vars

Spec == Init /\ [][Next]_vars

\* ------------------------------------------------- properties: MongoSession
\* positions in a sequence of calls of the calls of one kind
KindIn(cs, kind) == {i \in 1..Len(cs) : cs[i].kind = kind}

WritesIn(cs) == KindIn(cs, "insert_one") \cup KindIn(cs, "update_one")

\* positions in calls of the updates the last operation issued under key k
UpdatesFor(k) ==
    {i \in 1..Len(calls) : calls[i].kind = "update_one" /\ calls[i].key = k}

InsertsFor(e) ==
    {i \in 1..Len(calls) : calls[i].kind = "insert_one" /\ calls[i].ent = e}

\* top-level keys in which the entity tracked under k differed from its
\* baseline snapshot when the last flush began
Differing(k) ==
    {f \in Fields : pre.snapshots[k][f] # CurrentValue(TrackedAt(k))[f]}

\* the entity tracked under k differs from its baseline snapshot now
Differs(k) ==
    DOMAIN GetChangedFields(original_snapshots[k], Pop(Dump(TrackedAt(k)), "_id")) # {}

\* C1: a flush issues, for the entity tracked under each identifier, at most
\* one update; an update it issues sets exactly the top-level keys whose
\* current value differs from the baseline snapshot, each to its current
\* value, and there is at least one such key; a flush that completes issues
\* the update for every tracked entity that differs from its baseline.
C1_FlushUpdatesExactlyTheDiff ==
    op.name = "flush" =>
        /\ \A i \in 1..Len(calls) :
                calls[i].kind = "update_one" => calls[i].key \in TrackedKeys
        /\ \A k \in TrackedKeys :
            /\ Cardinality(UpdatesFor(k)) <= 1
            /\ \A i \in UpdatesFor(k) :
                /\ Differing(k) # {}
                /\ DOMAIN calls[i].doc = Differing(k)
                /\ \A f \in Differing(k) :
                        calls[i].doc[f] = CurrentValue(TrackedAt(k))[f]
            /\ (op.result = "ok" /\ Differing(k) # {}) => UpdatesFor(k) # {}

\* a completed flush that updated one tracked entity in some but not all of
\* its fields and left another tracked entity alone
C1_Witness ==
    /\ op.name = "flush" /\ op.result = "ok"
    /\ \E k, k2 \in TrackedKeys :
        /\ UpdatesFor(k) # {}
        /\ Differing(k) # Fields
        /\ UpdatesFor(k2) = {}

\* C3: after a flush that completes, the baseline snapshot of every tracked
\* entity equals the entity's current dump, whatever modified_count the
\* updates reported; and an update issued by a later flush for an entity
\* whose baseline an earlier flush refreshed sets only fields whose value
\* changed after that earlier flush.
C3_FlushAdvancesBaseline ==
    /\ (op.name = "flush" /\ op.result = "ok") =>
            \A k \in TrackedKeys :
                /\ k \in DOMAIN original_snapshots
                /\ PlainDump(original_snapshots[k]) = CurrentValue(TrackedAt(k))
    /\ op.name = "flush" =>
            \A i \in 1..Len(calls) :
                ( /\ calls[i].kind = "update_one"
                  /\ calls[i].key \in pre.flushed
                  /\ pre.base[calls[i].key].from = calls[i].ent ) =>
                    \A f \in DOMAIN calls[i].doc :
                        CurrentValue(TrackedAt(calls[i].key))[f]
                            # pre.base[calls[i].key].value[f]

\* a completed flush whose update, reported with modified_count 0, follows an
\* earlier flush of the same identifier and sets fewer fields than the
\* entity has
C3_Witness ==
    /\ op.name = "flush" /\ op.result = "ok"
    /\ \E i \in 1..Len(calls) :
        /\ calls[i].kind = "update_one"
        /\ calls[i].modified = 0
        /\ calls[i].key \in pre.flushed
        /\ pre.base[calls[i].key].from = calls[i].ent
        /\ DOMAIN calls[i].doc # Fields
        /\ PlainDump(original_snapshots[calls[i].key])
                = CurrentValue(TrackedAt(calls[i].key))

C10_BaselineIndependentOfEntity ==
    /\ \A k \in DOMAIN original_snapshots :
            k \notin flushed => PlainDump(original_snapshots[k]) = base[k].value
    /\ (op.name = "flush" /\ op.result = "ok") =>
            \A k \in TrackedKeys, f \in {"tags", "metadata"} :
                ( /\ k \in DOMAIN pre.base
                  /\ pre.base[k].from = TrackedAt(k)
                  /\ CurrentValue(TrackedAt(k))[f] # pre.base[k].value[f] ) =>
                    \E i \in UpdatesFor(k) :
                        /\ f \in DOMAIN calls[i].doc
                        /\ calls[i].doc[f] = CurrentValue(TrackedAt(k))[f]

Writes == {i \in 1..Len(calls) : calls[i].kind \in {"insert_one", "update_one"}}

\* positions at which the session holds the entity object itself
PendingAt(e) == {i \in 1..Len(pending_inserts) : pending_inserts[i] = e}

TrackedUnder(e) == {i \in 1..Len(tracked_entities) : tracked_entities[i].ent = e}

\* C11, as stated: no entity object is at once in _pending_inserts and in
\* _tracked_entities.
C11_NeverPendingAndTracked ==
    unit = "MongoSession" =>
        \A e \in Entities : PendingAt(e) = {} \/ TrackedUnder(e) = {}

\* C12, as stated: after add of an entity without identifier the entity
\* object itself has exactly one pending entry, however often it was added
\* and whatever equal entities are pending (flush inserts the pending
\* entries, so an entity without an entry of its own is not inserted).
C12_PendingDedupByIdentity ==
    (unit = "MongoSession" /\ op = Result("add", op.arg, "ok") /\ ent[op.arg].id = None) =>
        Cardinality(PendingAt(op.arg)) = 1

\* C13, as stated: every instance a session tracks has a baseline and a
\* change set of its own: in MongoSession an entity just added with an
\* identifier is the one tracked under it and the one its baseline was
\* captured from, in Session every added instance has its own Instance State
\* whose changed_fields only its own mutations fill, and in both a flush
\* issues an update only for an instance that was itself mutated.
C13_TrackedByIdentity ==
    /\ (unit = "MongoSession" /\ op = Result("add", op.arg, "ok") /\ ~NoIdentifier(op.arg)) =>
            /\ TrackedUnder(op.arg) # {}
            /\ base[ent[op.arg].id].from = op.arg
    /\ unit = "Session" =>
            /\ \A i \in 1..Len(tracked_instances) :
                    tracked_instances[i] \in DOMAIN instance_states
            /\ \A u \in DOMAIN instance_states :
                    instance_states[u].changed_fields # {} => u \in dirty
    /\ op.name = "flush" =>
            \A i \in Writes : calls[i].kind = "update_one" => calls[i].ent \in pre.dirty

\* what a flush would write under k for entity e
WouldWrite(k, e) ==
    PlainDump(GetChangedFields(original_snapshots[k], Pop(Dump(e), "_id")))

\* C14: an add of an instance the session already tracks leaves its baseline
\* as it was: in MongoSession the snapshot under the entity's identifier and
\* with it the fields the next flush will write for the entity, in Session
\* the Instance State with its changed fields and original values.
C14_ReAddKeepsBaseline ==
    [][ (op'.name = "add" /\ steps' # steps) =>
            /\ unit = "MongoSession" =>
                    \A e \in Entities, k \in TrackedKeys :
                        ( /\ op'.arg = e
                          /\ ent[e].id = k
                          /\ \E i \in TrackedUnder(e) : tracked_entities[i].key = k ) =>
                            /\ k \in DOMAIN original_snapshots'
                            /\ original_snapshots'[k] = original_snapshots[k]
                            /\ WouldWrite(k, e)' = WouldWrite(k, e)
            /\ unit = "Session" =>
                    LET u == op'.arg IN
                    u \in DOMAIN instance_states =>
                        /\ u \in DOMAIN instance_states'
                        /\ instance_states'[u] = instance_states[u] ]_vars

\* an entity, mutated since the session captured its baseline from it, has
\* just been added again and still differs from that baseline
C14_Witness ==
    /\ unit = "MongoSession" /\ op = Result("add", op.arg, "ok")
    /\ op.arg \in dirty
    /\ ent[op.arg].id \in TrackedKeys
    /\ TrackedAt(ent[op.arg].id) = op.arg
    /\ base[ent[op.arg].id].from = op.arg
    /\ Differs(ent[op.arg].id)

\* C15, as stated: MongoSession.commit calls commit_transaction only as its
\* last call, after a flush all of whose writes succeeded; when the flush
\* raised, commit_transaction was not called, the error is the result of
\* commit and the transaction is no longer in progress.
C15_CommitAbortsWhenFlushRaises ==
    (unit = "MongoSession" /\ op.name = "commit") =>
        /\ \A i \in 1..Len(calls) :
                calls[i].kind = "commit_transaction" =>
                    /\ i = Len(calls)
                    /\ op.result = "ok"
                    /\ \A j \in Writes : calls[j].ok
        /\ op.result # "ok" =>
                /\ \A i \in 1..Len(calls) : calls[i].kind # "commit_transaction"
                /\ ~in_transaction

\* C19: after a MongoSession.commit that returns, _tracked_entities,
\* _original_snapshots and _pending_inserts are empty, with or without a
\* transaction in progress; without one, commit does not call
\* commit_transaction and raises only what its flush raised.
C19_CommitLeavesNothingTracked ==
    [][ (unit = "MongoSession" /\ op'.name = "commit" /\ steps' # steps) =>
            /\ op'.result = "ok" =>
                    /\ tracked_entities' = <<>>
                    /\ original_snapshots' = NoKeys
                    /\ pending_inserts' = <<>>
            /\ ~in_transaction =>
                    /\ KindIn(calls', "commit_transaction") = {}
                    /\ op'.result # "ok" =>
                            \/ /\ op'.result = "StoreError"
                               /\ calls' # <<>> /\ ~calls'[Len(calls')].ok
                            \/ /\ op'.result = "InvalidEntityIdError"
                               /\ \E k \in TrackedKeys : ~ValidObjectId(k) ]_vars

\* a commit that returned without a transaction in progress, after writing
C19_Witness ==
    /\ unit = "MongoSession" /\ op.name = "commit" /\ op.result = "ok"
    /\ KindIn(calls, "commit_transaction") = {}
    /\ KindIn(calls, "insert_one") # {}
    /\ KindIn(calls, "update_one") # {}

\* C20, as stated: the first instrument_class call for a class succeeds and
\* installs the hook on it; every later call for that class raises
\* ClassAlreadyInstrumentedError and leaves all hooks as they are; no class
\* ever has the hook installed more than once.
C20_InstrumentedExactlyOnce ==
    [][ (op'.name = "instrument_class" /\ steps' # steps) =>
            \A cls \in Classes :
                op'.arg = cls =>
                    /\ IF cls \in called
                       THEN /\ op'.result = "ClassAlreadyInstrumentedError"
                            /\ klass' = klass
                       ELSE /\ op'.result = "ok"
                            /\ klass'[cls].installs = 1
                    /\ \A c \in Classes : klass'[c].installs <= 1 ]_vars

\* ------------------------------------------------------ properties: Session
\* C16: Session.commit calls commit_transaction after every write of its
\* flush and only when all of them succeeded and flush raised nothing; when
\* flush or commit_transaction raised, abort_transaction is called, as the
\* last call, exactly if a transaction is in progress at that moment, and
\* commit ends with the error; a commit that ends without error aborted
\* nothing.
C16_SessionCommitOrder ==
    [][ (unit = "Session" /\ op'.name = "commit" /\ steps' # steps) =>
            LET cs == calls'
                commits == KindIn(cs, "commit_transaction")
                aborts == KindIn(cs, "abort_transaction")
                flushRaised == op'.result \in {"StoreError", "InvalidId"}
                active == IF flushRaised THEN in_transaction
                          ELSE \E i \in commits : cs[i].doc = [active |-> TRUE]
            IN /\ \A i \in commits :
                    /\ ~flushRaised
                    /\ \A j \in WritesIn(cs) : j < i /\ cs[j].ok
               /\ (\E i \in 1..Len(cs) : ~cs[i].ok) => op'.result # "ok"
               /\ op'.result # "ok" =>
                    /\ aborts = IF active THEN {Len(cs)} ELSE {}
                    /\ flushRaised \/ \E i \in commits : ~cs[i].ok
               /\ op'.result = "ok" => aborts = {} ]_vars

\* a Session.commit whose flush raised after a successful write, with the
\* transaction aborted
C16_Witness ==
    /\ unit = "Session" /\ op.name = "commit" /\ op.result = "StoreError"
    /\ KindIn(calls, "abort_transaction") = {Len(calls)}
    /\ \E i \in WritesIn(calls) : calls[i].ok

\* C17: a rollback of either unit of work issues no insert and no update,
\* calls abort_transaction, and nothing else, exactly if a transaction was in
\* progress, and leaves MongoSession without pending inserts, tracked
\* entities and snapshots and every Instance State of a Session without
\* changed fields and original values.
C17_RollbackDiscardsWithoutWriting ==
    [][ (op'.name = "rollback" /\ steps' # steps) =>
            /\ WritesIn(calls') = {}
            /\ KindIn(calls', "abort_transaction") = IF in_transaction THEN {1} ELSE {}
            /\ Len(calls') = IF in_transaction THEN 1 ELSE 0
            /\ unit = "MongoSession" =>
                    /\ pending_inserts' = <<>>
                    /\ tracked_entities' = <<>>
                    /\ original_snapshots' = NoKeys
            /\ unit = "Session" =>
                    /\ DOMAIN instance_states' = DOMAIN instance_states
                    /\ \A u \in DOMAIN instance_states' :
                            /\ instance_states'[u].changed_fields = {}
                            /\ instance_states'[u].original_values = NoKeys ]_vars

\* a Session rollback, with the transaction aborted, after two tracked
\* instances were mutated
C17_Witness ==
    /\ unit = "Session" /\ op.name = "rollback"
    /\ Cardinality(dirty) = 2
    /\ dirty \subseteq DOMAIN instance_states
    /\ KindIn(calls, "abort_transaction") = {1}

\* C18, as stated: the add, flush, commit or rollback that follows close on a
\* Session fails with a session-not-active error and neither tracks nor
\* writes anything.
C18_ClosedSessionRejectsOperations ==
    [][ ( /\ unit = "Session" /\ op.name = "close" /\ steps' # steps
          /\ op'.name \in {"add", "flush", "commit", "rollback"} ) =>
            /\ op'.result = "SessionNotActiveError"
            /\ calls' = <<>>
            /\ UNCHANGED <<instance_states, tracked_instances>> ]_vars

C5_NewRecordIsInserted ==
    (unit = "Session" /\ op.name = "flush" /\ op.result = "ok") =>
        \A u \in DOMAIN pre.states :
            pre.ids[u] = None =>
                /\ Cardinality(InsertsFor(u)) = 1
                /\ \A i \in InsertsFor(u) : DOMAIN calls[i].doc = PublicFields

\* C6: in a Session neither changed_fields nor original_values of any
\* Instance State ever holds "_id", and no update's $set does, whether the
\* identifier was written by an insert or assigned by the application.
C6_IdentifierIsNoChange ==
    unit = "Session" =>
        /\ \A u \in DOMAIN instance_states :
            /\ "_id" \notin instance_states[u].changed_fields
            /\ "_id" \notin DOMAIN instance_states[u].original_values
        /\ \A i \in 1..Len(calls) :
                calls[i].kind = "update_one" => "_id" \notin DOMAIN calls[i].doc

\* the application has just assigned _id on a tracked instance, and an
\* instance carries an identifier the store generated
C6_Witness ==
    /\ unit = "Session" /\ op.name = "_id"
    /\ op.arg \in DOMAIN instance_states
    /\ sinst[op.arg].id = "a"
    /\ \E u \in DOMAIN instance_states : sinst[u].id \in StoreIds

C8_OriginalIffChanged ==
    \A u \in DOMAIN instance_states :
        DOMAIN instance_states[u].original_values = instance_states[u].changed_fields

\* C9, as stated: no entry of original_values holds an object the
\* application can reach, and every entry still has the value it was stored
\* with.
C9_OriginalsAreIndependent ==
    \A u \in DOMAIN instance_states :
        \A f \in DOMAIN instance_states[u].original_values :
            LET original == instance_states[u].original_values[f] IN
            /\ IsListValue(f) => \A i \in 1..Len(original) : ~IsDictRef(original[i])
            /\ DeepCopy(f, original) = captured[u][f]

\* ------------------------------------------------- properties: add
\* C21: add rejects an object of an unusable type and leaves the session as
\* it was: MongoSession.add raises EntityNotDataclassError for an object
\* that is no dataclass instance and CollectionMappingNotFoundError for an
\* instance of a dataclass collection_mapping does not hold; Session.add
\* raises ClassNotInstrumentedError for an instance of a class that was
\* never instrumented.
C21_AddRejectsUnusableTypes ==
    [][ ( op'.name = "add" /\ steps' # steps ) =>
            /\ (unit = "MongoSession" /\ op'.arg \in OtherObjects) =>
                    /\ op'.result = IF op'.arg = "plain"
                                     THEN "EntityNotDataclassError"
                                     ELSE "CollectionMappingNotFoundError"
                    /\ calls' = <<>>
                    /\ UNCHANGED <<tracked_entities, original_snapshots,
                                   pending_inserts, ent, lists, inner>>
            /\ (unit = "proxies" /\ op'.arg = "plain") =>
                    /\ op'.result = "ClassNotInstrumentedError"
                    /\ UNCHANGED <<pdoc, pstate>> ]_vars

\* a MongoSession that tracks one entity and has another queued has just
\* rejected an instance of an unmapped dataclass
C21_Witness ==
    /\ unit = "MongoSession"
    /\ op = Result("add", "unmapped", "CollectionMappingNotFoundError")
    /\ Len(tracked_entities) = 1 /\ Len(pending_inserts) = 1

\* C22, as stated: MongoSession.add raises EntityMissingIdError for an
\* entity of a mapped dataclass whose class has no _id field, and queues an
\* entity whose _id is None as a pending insert.
C22_MissingIdFieldIsRejected ==
    [][ ( unit = "MongoSession" /\ op'.name = "add" /\ steps' # steps ) =>
            \A e \in Entities :
                op'.arg = e =>
                    /\ ent[e].id = Absent =>
                            /\ op'.result = "EntityMissingIdError"
                            /\ UNCHANGED <<pending_inserts, tracked_entities>>
                    /\ ent[e].id = None =>
                            /\ op'.result = "ok"
                            /\ InList(e, pending_inserts') ]_vars

\* C30: MongoSession.rollback leaves the entities as they are and the
\* session empty; an add that follows a rollback tracks the entity and takes
\* its snapshot at the entity's value of that moment; and an update a later
\* flush issues for the entity is the only one for it and sets only fields
\* whose value differs from the one the entity had at that add; a flush that
\* completes issues it for every tracked entity that differs from its
\* snapshot, with exactly the differing fields.
C30_UsableAfterRollback ==
    [][ ( unit = "MongoSession" /\ steps' # steps ) =>
            /\ op'.name = "rollback" =>
                    /\ UNCHANGED <<ent, lists, inner>>
                    /\ tracked_entities' = <<>>
                    /\ original_snapshots' = NoKeys
                    /\ pending_inserts' = <<>>
            /\ \A e \in Entities :
                    ( /\ op.name = "rollback"
                      /\ op' = Result("add", e, "ok")
                      /\ ~NoIdentifier(e) ) =>
                        /\ UNCHANGED <<ent, lists, inner>>
                        /\ TrackedAt(ent[e].id)' = e
                        /\ PlainDump(original_snapshots[ent[e].id])' = CurrentValue(e)
                        /\ base'[ent[e].id].value = CurrentValue(e)
            /\ ( rolled_back /\ op'.name = "flush" ) =>
                    \A k \in TrackedKeys :
                        /\ Cardinality(UpdatesFor(k)') <= 1
                        /\ \A i \in UpdatesFor(k)' :
                                \A f \in DOMAIN calls'[i].doc :
                                    /\ calls'[i].doc[f] # base[k].value[f]
                                    /\ calls'[i].doc[f]
                                            = CurrentValue(TrackedAt(k))[f]
            /\ ( rolled_back /\ op' = Result("flush", None, "ok") ) =>
                    \A k \in TrackedKeys :
                        Differing(k)' # {} =>
                            /\ UpdatesFor(k)' # {}
                            /\ \A i \in UpdatesFor(k)' :
                                    DOMAIN calls'[i].doc = Differing(k)' ]_vars

\* after a rollback emptied the session, an entity was added again and
\* mutated, and a completed flush issued one update for it that sets some
\* but not all of its fields
C30_Witness ==
    /\ unit = "MongoSession" /\ rolled_back
    /\ op = Result("flush", None, "ok")
    /\ \E k \in TrackedKeys :
            /\ Cardinality(UpdatesFor(k)) = 1
            /\ \A i \in UpdatesFor(k) : DOMAIN calls[i].doc \notin {{}, Fields}

\* ------------------------------------------- properties: proxies of Session
\* C23, as stated: a mutation made through the proxies below a field of a
\* tracked instance (an element record of a list, a record a field holds, a
\* list held by such a record, a nested list) adds to changed_fields the
\* top-level field that contains the mutated value, and no other name.
C23_NestedMutationMarksRootField ==
    [][ ( /\ unit = "proxies" /\ steps' # steps
          /\ pstate.ref # None /\ "doc" \in DOMAIN pstate.states[pstate.ref]
          /\ op'.arg \in NestedPlaces ) =>
            /\ ChangedFieldsOf' \ ChangedFieldsOf \subseteq {RootField(op'.arg)}
            /\ PlainDoc' # PlainDoc => RootField(op'.arg) \in ChangedFieldsOf' ]_vars

\* C24: each of append, extend, insert, remove, pop, clear, index assignment
\* and index deletion on a TrackedList, top-level or nested, whose map holds
\* the Instance State of its instance leaves the field the list belongs to
\* in the changed fields of that state, whether the operation changed the
\* content, left it as it was or raised.
C24_ListOperationMarksField ==
    [][ ( /\ unit = "proxies" /\ steps' # steps /\ op'.name \in ListKinds ) =>
            \A place \in ListPlaces :
                ( /\ op'.arg = place
                  /\ Reach(place).err = "ok"
                  /\ Reach(place).node.t = "TrackedList"
                  /\ Reach(place).node.inst
                        \in DOMAIN pstate.states[Reach(place).node.map] ) =>
                    /\ Reach(place).node.field = RootField(place)
                    /\ op'.result \in {"ok", "IndexError", "ValueError"}
                    /\ RootField(place) \in
                            pstate'.states[Reach(place).node.map]["doc"].changed_fields ]_vars

\* pop on the empty nested list of matrix raised IndexError right after add,
\* and matrix is the one changed field
C24_Witness ==
    /\ unit = "proxies" /\ steps = 2
    /\ op = Result("pop", "matrix[0]", "IndexError")
    /\ pdoc.matrix.items[1].t = "TrackedList"
    /\ ChangedFieldsOf = {"matrix"}

\* C25, as stated: setting a key of the dict a field of a tracked instance
\* holds marks the field, and build_update_query then carries the field.
C25_DictMutationMarksField ==
    [][ ( /\ unit = "proxies" /\ steps' # steps
          /\ pstate.ref # None /\ "doc" \in DOMAIN pstate.states[pstate.ref]
          /\ op' = Result("__setitem__", "metadata", "ok") ) =>
            /\ "metadata" \in ChangedFieldsOf'
            /\ "metadata" \in DOMAIN ProxyUpdateQuery' ]_vars

\* C26: assigning to a field of a tracked instance the value it holds
\* records the field in changed_fields; the $set of build_update_query then
\* has exactly the changed fields as keys, each with the serialization of
\* the field's current value, free of proxies.
C26_SameValueAssignmentIsAChange ==
    [][ ( /\ unit = "proxies" /\ steps' # steps
          /\ pstate.ref # None /\ "doc" \in DOMAIN pstate.states[pstate.ref]
          /\ op' = Result("setattr", "username", "ok")
          /\ pdoc'.username = pdoc.username ) =>
            /\ "username" \in ChangedFieldsOf'
            /\ DOMAIN ProxyUpdateQuery' = ChangedFieldsOf' \ {"_id"}
            /\ \A f \in DOMAIN ProxyUpdateQuery' :
                    /\ ProxyUpdateQuery'[f] = SerializeNode(PlainDoc'[f])
                    /\ NoProxy(ProxyUpdateQuery'[f]) ]_vars

\* right after add, username was assigned the value it had, and is the one
\* changed field
C26_Witness ==
    /\ unit = "proxies" /\ steps = 2
    /\ op = Result("setattr", "username", "ok")
    /\ pdoc.username = Scalar(0)
    /\ ChangedFieldsOf = {"username"}
    /\ DOMAIN ProxyUpdateQuery = {"username"}

\* C27: an operation on the instance changes nothing in the map of a
\* Session the instance has no Instance State in: not the changed fields or
\* original values of the states that map holds, nor what it holds.
C27_SessionsAreIsolated ==
    [][ ( /\ unit = "proxies" /\ steps' # steps
          /\ op'.name \notin {"add", "close"} ) =>
            \A s \in ProxySessions :
                "doc" \notin DOMAIN pstate.states[s] =>
                    pstate'.states[s] = pstate.states[s] ]_vars

\* the instance was added to S1 only, a second instance to S2, and an
\* append to tags was recorded in S1
C27_Witness ==
    /\ unit = "proxies" /\ op = Result("append", "tags", "ok")
    /\ DOMAIN pstate.states["S1"] = {"doc"}
    /\ DOMAIN pstate.states["S2"] = {"other"}
    /\ pstate.states["S1"]["doc"].changed_fields = {"tags"}
    /\ pstate.states["S2"]["other"] = NewInstanceState

\* C28, as stated: once the instance was added to a second Session (its
\* tags still being the TrackedList of the first), an attribute assignment
\* or list operation that changes a field is recorded where the instance
\* reads it: get_changed_fields() has the field, and get_original_value of a
\* field that was not changed before is the value before the operation.
C28_RecordedAfterSecondAdd ==
    [][ ( /\ unit = "proxies" /\ steps' # steps
          /\ pstate.ref # None /\ "doc" \in DOMAIN pstate.states[pstate.ref]
          /\ pdoc.tags.t = "TrackedList" /\ pdoc.tags.map # pstate.ref
          /\ op'.arg \in {"username", "tags"} /\ op'.result = "ok" ) =>
            \A f \in {"username", "tags"} :
                ( op'.arg = f /\ PlainDoc'[f] # PlainDoc[f] ) =>
                    /\ f \in ChangedFieldsOf'
                    /\ f \in DOMAIN pstate'.states[pstate.ref]["doc"].original_values
                    /\ f \notin ChangedFieldsOf =>
                          pstate'.states[pstate.ref]["doc"].original_values[f]
                              = PlainDoc[f] ]_vars

\* C29: Session.add wraps the fields of the instance without changing what
\* _serialize_value returns for any of them, and the serialized value of a
\* wrapped field holds no TrackedList and no TrackedObject.
C29_SerializeIgnoresWrapping ==
    [][ ( /\ unit = "proxies" /\ steps' # steps /\ op'.name = "add" ) =>
            \A f \in DocFields :
                /\ SerializeNode(pdoc'[f]) = SerializeNode(pdoc[f])
                /\ NoProxy(SerializeNode(pdoc'[f])) ]_vars

\* an instance was added whose list of records, nested list (with an item),
\* directly held record and dict are all in place, the first three wrapped
C29_Witness ==
    /\ unit = "proxies" /\ op.name = "add"
    /\ pdoc.tags.t = "TrackedList"
    /\ pdoc.tags.items # <<>> /\ pdoc.matrix.items # <<>>
    /\ pdoc.tags.items[1].t = "TrackedObject"
    /\ pdoc.matrix.items[1].t = "TrackedList"
    /\ Len(pdoc.matrix.items[1].items) = 1
    /\ pdoc.profile.t = "TrackedObject"
    /\ pdoc.metadata.t = "dict"

\* ------------------------------------- properties: MongoSession.flush
\* C32: in the calls of one MongoSession.flush every insert_one comes before
\* every update_one; a flush that completes has issued exactly one
\* insert_one for each entity it found pending and none for another, and
\* exactly one update_one for each tracked entity that differed from its
\* baseline snapshot and none for one that did not.
C32_InsertsBeforeUpdates ==
    (unit = "MongoSession" /\ op.name = "flush") =>
        /\ \A i \in KindIn(calls, "insert_one"), j \in KindIn(calls, "update_one") :
                i < j
        /\ op.result = "ok" =>
                /\ \A e \in Entities :
                        Cardinality(InsertsFor(e)) =
                            IF \E i \in 1..Len(pre.pending) : pre.pending[i] = e
                            THEN 1 ELSE 0
                /\ \A k \in TrackedKeys :
                        Cardinality(UpdatesFor(k)) =
                            IF Differing(k) # {} THEN 1 ELSE 0
                /\ \A i \in KindIn(calls, "update_one") : calls[i].key \in TrackedKeys

\* a completed flush found one entity pending and another tracked and
\* changed, and issued an insert and then an update
C32_Witness ==
    /\ unit = "MongoSession" /\ op = Result("flush", None, "ok")
    /\ Len(pre.pending) = 1
    /\ Len(tracked_entities) = 1
    /\ TrackedAt(tracked_entities[1].key) # pre.pending[1]
    /\ Cardinality(KindIn(calls, "insert_one")) = 1
    /\ Cardinality(KindIn(calls, "update_one")) = 1

\* the last operation raised while it processed the updates: on an
\* identifier that is no ObjectId, or in an update_one
RaisedInUpdates ==
    \/ op.result = "InvalidEntityIdError"
    \/ \E i \in KindIn(calls, "update_one") : ~calls[i].ok

C34_InvalidIdRollsBack ==
    [][ ( /\ unit = "MongoSession" /\ steps' # steps
          /\ op' = Result("flush", None, "InvalidEntityIdError") ) =>
            /\ \A i \in KindIn(calls', "update_one") : ValidObjectId(calls'[i].key)
            /\ ~in_transaction'
            /\ in_transaction =>
                    /\ calls' # <<>>
                    /\ calls'[Len(calls')].kind = "abort_transaction" ]_vars

\* C36, as stated: after a MongoSession.flush that completes, every entity
\* it inserted is tracked under the identifier it was given, with a
\* baseline snapshot equal to its value, so that a later mutation makes the
\* next flush issue an update for it.
C36_InsertedEntityStaysTracked ==
    (unit = "MongoSession" /\ op = Result("flush", None, "ok")) =>
        \A e \in Entities :
            InsertsFor(e) # {} =>
                /\ ent[e].id \in TrackedKeys
                /\ TrackedAt(ent[e].id) = e
                /\ HasSnapshot(ent[e].id)
                /\ PlainDump(original_snapshots[ent[e].id]) = CurrentValue(e)

\* C37, as stated: no flush, and no commit through its flush, issues an
\* insert_one for an entity that an insert_one of an earlier flush stored:
\* such an entity carries an identifier the store generated, which nothing
\* but a successful insert_one of that entity assigns.
C37_InsertedAtMostOnce ==
    [][ ( /\ unit = "MongoSession" /\ steps' # steps
          /\ op'.name \in {"flush", "commit"} ) =>
            \A i \in KindIn(calls', "insert_one") :
                ent[calls'[i].ent].id \notin StoreIds ]_vars

\* C31, as stated: when two tracked entities hold the same list or dict
\* object and that object was mutated in place after the baselines of both
\* were captured, so that the field's value differs from the one either
\* entity had then, a flush that completes issues exactly one update for
\* each of the two, and both carry the field with its current value.
C31_SharedObjectUpdatesBoth ==
    (unit = "MongoSession" /\ op = Result("flush", None, "ok")) =>
        \A k1, k2 \in TrackedKeys \cap DOMAIN pre.base, f \in {"tags", "metadata"} :
            LET x == TrackedAt(k1)
                y == TrackedAt(k2)
            IN ( /\ k1 # k2 /\ x # y
                 /\ ent[x][f] = ent[y][f]
                 /\ pre.base[k1].from = x /\ pre.base[k2].from = y
                 /\ CurrentValue(x)[f] # pre.base[k1].value[f]
                 /\ CurrentValue(y)[f] # pre.base[k2].value[f] ) =>
                    \A k \in {k1, k2} :
                        /\ Cardinality(UpdatesFor(k)) = 1
                        /\ \A i \in UpdatesFor(k) :
                                /\ f \in DOMAIN calls[i].doc
                                /\ calls[i].doc[f] = CurrentValue(x)[f]

\* ------------------------------------- properties: Session.rollback
\* C39, as stated: Session.rollback gives every field of every tracked
\* instance the value it had when its window began (at add or at the write
\* of the last flush that reset the Instance State, or at an earlier
\* rollback), whether it was assigned or its list mutated in place since,
\* and leaves changed_fields and original_values empty. Stated for the
\* instances whose list held no dict when the window began: a dict can be
\* changed without the Session noticing, which moves the value a later
\* flush would count as written.
C39_RollbackRestoresFields ==
    [][ ( unit = "Session" /\ steps' # steps /\ op'.name = "rollback" ) =>
            \A u \in DOMAIN instance_states :
                ( /\ \E i \in 1..Len(tracked_instances) : tracked_instances[i] = u
                  /\ \A i \in 1..Len(win[u]["tags"].start) :
                        "k" \notin DOMAIN win[u]["tags"].start[i] ) =>
                    /\ instance_states'[u] = NewInstanceState
                    /\ \A f \in PublicFields :
                            DeepCopy(f, GetAttr(sinst', u, f)) = win[u][f].start ]_vars

\* ------------------------------------- properties: list operations
\* C40, as stated: sort, reverse, += and *= on a list field of an instance
\* that its Session tracks, the field holding a TrackedList over that
\* Session's map, leave the field in the changed fields whenever they
\* changed the content or the order of the list, and build_update_query
\* then carries the field with the list's current value.
C40_EveryListOperationMarks ==
    [][ ( /\ unit = "proxies" /\ steps' # steps
          /\ op'.name \in InheritedKinds \cup {"__iadd__", "__imul__"}
          /\ op'.result = "ok" ) =>
            \A name \in {"tags", "matrix"} :
                ( /\ op'.arg = name
                  /\ pdoc[name].t = "TrackedList"
                  /\ pstate.ref = pdoc[name].map
                  /\ "doc" \in DOMAIN pstate.states[pstate.ref]
                  /\ PlainDoc'[name] # PlainDoc[name] ) =>
                    /\ name \in ChangedFieldsOf'
                    /\ name \in DOMAIN ProxyUpdateQuery'
                    /\ ProxyUpdateQuery'[name] = SerializeNode(pdoc'[name]) ]_vars

\* ------------------------------------- properties: a flush and another task
\* C38: no mutation is lost when it interleaves with a flush. When another
\* task assigned a tracked entity's name while a flush was suspended at an
\* await, after the entity's update was issued and before the snapshots
\* were advanced, the next completed flush issues an update for that entity
\* that carries the field.
C38_InterleavedMutationIsFlushed ==
    [][ ( /\ unit = "MongoSession"
          /\ op.name = "flush_suspended"
          /\ op' = Result("flush", None, "ok") ) =>
            \E i \in 1..Len(calls') :
                /\ calls'[i].kind = "update_one"
                /\ calls'[i].ent = op.arg
                /\ "name" \in DOMAIN calls'[i].doc ]_vars

\* --------------------------------------- properties: MongoChangeTracker.save
\* C35: track rejects an entity without identifier with EntityMissingIdError
\* and tracks nothing; a save that returns with entities tracked has issued
\* one ordered bulk_write holding one ReplaceOne per tracked entity, filtered
\* by the key it was tracked under and replacing the document by the
\* entity's dump without _id, has returned the modified count the store
\* reported and made no other call; a save that raises has aborted the
\* transaction if one was active, as its last call, and raises the error
\* again; either way, and when nothing was tracked, nothing is tracked
\* afterwards.
C35_SaveLeavesNothingTracked ==
    [][ ( unit = "MongoChangeTracker" /\ steps' # steps ) =>
            /\ ( op'.name = "track" /\ op'.arg \in Entities
                 /\ NoIdentifier(op'.arg) ) =>
                    /\ op'.result = "EntityMissingIdError"
                    /\ tracked_entities' = tracked_entities
            /\ op'.name = "save" => tracked_entities' = <<>>
            /\ ( op'.name = "save" /\ op'.result = "ok"
                 /\ tracked_entities # <<>> ) =>
                    /\ Len(calls') = 1
                    /\ calls'[1].kind = "bulk_write"
                    /\ calls'[1].ok
                    /\ calls'[1].doc.ordered
                    /\ Len(calls'[1].doc.operations) = Len(tracked_entities)
                    /\ \A i \in 1..Len(tracked_entities) :
                            calls'[1].doc.operations[i] =
                                [filter |-> tracked_entities[i].key,
                                 replacement |-> CurrentValue(tracked_entities[i].ent),
                                 upsert |-> FALSE]
                    /\ op'.arg = ToString(calls'[1].modified)
                    /\ in_transaction' = in_transaction
            /\ ( op'.name = "save" /\ op'.result = "ok"
                 /\ tracked_entities = <<>> ) =>
                    calls' = <<>> /\ op'.arg = ToString(0)
            /\ ( op'.name = "save" /\ op'.result # "ok" ) =>
                    /\ op'.result \in {"StoreError", "InvalidEntityIdError"}
                    /\ ~in_transaction'
                    /\ KindIn(calls', "abort_transaction")
                            = IF in_transaction THEN {Len(calls')} ELSE {}
                    /\ \A i \in KindIn(calls', "bulk_write") : ~calls'[i].ok ]_vars

\* a save of two tracked entities whose bulk_write raised inside a
\* transaction: the two operations were sent, the transaction was aborted
C35_Witness ==
    /\ unit = "MongoChangeTracker"
    /\ op = Result("save", None, "StoreError")
    /\ Len(calls) = 2
    /\ calls[1].kind = "bulk_write" /\ Len(calls[1].doc.operations) = 2
    /\ calls[2].kind = "abort_transaction"
    /\ tracked_entities = <<>>

====
